---------------------------- MODULE Spec2Model ----------------------------
(***************************************************************************)
(* Retrieval and ranking pipeline of the multi-restaurant RAG backend      *)
(* (Backend/RAG/utils): query cleaning, restaurant detection, hybrid       *)
(* search, reranking and context assembly; and the services around it      *)
(* (Backend/RAG/services, main.py): the LLM client, the query classifier   *)
(* and the websocket connection manager.                                   *)
(*                                                                         *)
(* Strings are TLA+ strings handled character by character.  Scores are    *)
(* fixed-point numbers: the float 1.0 is the integer One, so every weight  *)
(* and every quotient the code computes on the modelled inputs is exact.   *)
(***************************************************************************)
EXTENDS Integers, Sequences, FiniteSets, TLC

VARIABLES
    cq,                 \* QueryProcessor: the last clean_query call
    rk,                 \* Reranker: the last scoring call
    restaurant_index,   \* MultiRestaurantRAGSystem.restaurant_index["restaurants"]
    restaurant_data,    \* MultiRestaurantRAGSystem.restaurant_data (JSON fallback)
    use_vector_db,      \* MultiRestaurantRAGSystem.use_vector_db
    restaurant_collection, \* the documents of the "restaurants" collection of the vector DB
    llm_service,        \* GroqLLMService: api_configured, model, temperature
    manager,            \* ConnectionManager: active_connections
    call,               \* the last call made on the RAG system, with its arguments
    ret                 \* what that call returned

\* the fields of the RAG system object
system == <<restaurant_index, restaurant_data, use_vector_db, restaurant_collection>>

\* the service objects main.py creates at startup
services == <<llm_service, manager>>

vars == <<cq, rk, system, services, call, ret>>

-----------------------------------------------------------------------------
(* Bounds of the model *)

\* tokens concatenated into a raw query for clean_query
MaxTokens == 4

\* length of the query-term list handed to the reranker
MaxTerms == 2

\* words in a query put to the RAG system
MaxQueryWords == 2

\* hits the similarity backend returns for one query
MaxHits == 2

-----------------------------------------------------------------------------
(* Python string and list primitives *)

Min(a, b) == IF a <= b THEN a ELSE b

Max(a, b) == IF a >= b THEN a ELSE b

Range(s) == {s[i] : i \in DOMAIN s}

\* s[i-1:i]: one character, or "" past the end
CharAt(s, i) == IF i \in 1..Len(s) THEN SubSeq(s, i, i) ELSE ""

\* s[i-1:j]
Slice(s, i, j) == SubSeq(s, i, IF j <= Len(s) THEN j ELSE Len(s))

\* Python evaluates the right-hand side of an assignment once: Rest is
\* evaluated with the value of `value`
Once(value, Rest(_)) == CHOOSE result \in {Rest(v) : v \in {value}} : TRUE

LowerOf ==
    "A" :> "a" @@ "B" :> "b" @@ "C" :> "c" @@ "D" :> "d" @@ "E" :> "e" @@ "F" :> "f" @@
    "G" :> "g" @@ "H" :> "h" @@ "I" :> "i" @@ "J" :> "j" @@ "K" :> "k" @@ "L" :> "l" @@
    "M" :> "m" @@ "N" :> "n" @@ "O" :> "o" @@ "P" :> "p" @@ "Q" :> "q" @@ "R" :> "r" @@
    "S" :> "s" @@ "T" :> "t" @@ "U" :> "u" @@ "V" :> "v" @@ "W" :> "w" @@ "X" :> "x" @@
    "Y" :> "y" @@ "Z" :> "z"

UpperOf ==
    "a" :> "A" @@ "b" :> "B" @@ "c" :> "C" @@ "d" :> "D" @@ "e" :> "E" @@ "f" :> "F" @@
    "g" :> "G" @@ "h" :> "H" @@ "i" :> "I" @@ "j" :> "J" @@ "k" :> "K" @@ "l" :> "L" @@
    "m" :> "M" @@ "n" :> "N" @@ "o" :> "O" @@ "p" :> "P" @@ "q" :> "Q" @@ "r" :> "R" @@
    "s" :> "S" @@ "t" :> "T" @@ "u" :> "U" @@ "v" :> "V" @@ "w" :> "W" @@ "x" :> "X" @@
    "y" :> "Y" @@ "z" :> "Z"

LowerChar(c) == IF c \in DOMAIN LowerOf THEN LowerOf[c] ELSE c

UpperChar(c) == IF c \in DOMAIN UpperOf THEN UpperOf[c] ELSE c

\* str.lower(), character by character (the string is halved to keep the
\* evaluation shallow)
RECURSIVE StrLower(_)
StrLower(s) ==
    IF Len(s) = 0 THEN ""
    ELSE IF Len(s) = 1 THEN LowerChar(s)
    ELSE StrLower(SubSeq(s, 1, Len(s) \div 2)) \o StrLower(SubSeq(s, Len(s) \div 2 + 1, Len(s)))

\* str.upper()
RECURSIVE StrUpper(_)
StrUpper(s) ==
    IF Len(s) = 0 THEN ""
    ELSE IF Len(s) = 1 THEN UpperChar(s)
    ELSE StrUpper(SubSeq(s, 1, Len(s) \div 2)) \o StrUpper(SubSeq(s, Len(s) \div 2 + 1, Len(s)))

\* Python: needle in hay
StrIn(needle, hay) ==
    \E i \in 1..(Len(hay) - Len(needle) + 1) :
        SubSeq(hay, i, i + Len(needle) - 1) = needle

\* Python: s[:n]
Prefix(s, n) == SubSeq(s, 1, Min(n, Len(s)))

IsSpace(c) == c \in {" ", "\t", "\n"}

IsDigit(c) == c \in {"0", "1", "2", "3", "4", "5", "6", "7", "8", "9"}

RECURSIVE LStrip(_)
LStrip(s) ==
    IF Len(s) > 0 /\ IsSpace(CharAt(s, 1)) THEN LStrip(SubSeq(s, 2, Len(s))) ELSE s

RECURSIVE RStrip(_)
RStrip(s) ==
    IF Len(s) > 0 /\ IsSpace(CharAt(s, Len(s))) THEN RStrip(SubSeq(s, 1, Len(s) - 1)) ELSE s

Strip(s) == RStrip(LStrip(s))

\* re.sub(r'\s+', ' ', s)
RECURSIVE CollapseSpaces(_)
CollapseSpaces(s) ==
    IF Len(s) = 0 THEN ""
    ELSE IF IsSpace(CharAt(s, 1))
         THEN " " \o CollapseSpaces(LStrip(s))
         ELSE CharAt(s, 1) \o CollapseSpaces(SubSeq(s, 2, Len(s)))

\* str.split(): the maximal runs of non-whitespace characters
RECURSIVE SplitFrom(_, _, _)
SplitFrom(s, i, cur) ==
    IF i > Len(s) THEN (IF cur = "" THEN <<>> ELSE <<cur>>)
    ELSE IF IsSpace(CharAt(s, i))
         THEN (IF cur = "" THEN <<>> ELSE <<cur>>) \o SplitFrom(s, i + 1, "")
         ELSE SplitFrom(s, i + 1, cur \o CharAt(s, i))

Split(s) == SplitFrom(s, 1, "")

\* sep.join(words)
RECURSIVE Join(_, _)
Join(words, sep) ==
    IF Len(words) = 0 THEN ""
    ELSE IF Len(words) = 1 THEN words[1]
    ELSE words[1] \o sep \o Join(Tail(words), sep)

\* [w for w in words if w not in excluded]
Without(words, excluded) == SelectSeq(words, LAMBDA w : w \notin excluded)

\* the concatenations of at most n strings of `tokens`
RECURSIVE Concats(_, _)
Concats(tokens, n) ==
    IF n = 0 THEN {""}
    ELSE LET shorter == Concats(tokens, n - 1)
         IN  shorter \cup {s \o t : s \in shorter, t \in tokens}

-----------------------------------------------------------------------------
(* QueryProcessor (utils/query_processor.py) *)

FILLER_WORDS ==
    {"hi", "hello", "hey", "please", "thanks", "thank you",
     "can you", "could you", "would you", "will you",
     "tell me", "let me know", "i want", "i need", "i would like",
     "show me", "give me", "help me", "i am looking for",
     "do you have", "is there", "are there"}

TrivialGreetings == {"hi", "hello", "hey", "please"}

\* A slip: list.remove() drops only the first trivial greeting.
RECURSIVE RemoveFirstTrivial(_)
RemoveFirstTrivial(words) ==
    IF Len(words) = 0 THEN <<>>
    ELSE IF words[1] \in TrivialGreetings THEN Tail(words)
    ELSE <<words[1]>> \o RemoveFirstTrivial(Tail(words))

\* "Just remove common fillers but keep structure"
KeepStructure(words) == Without(words, TrivialGreetings)

clean_query(query) ==
    IF query = "" THEN ""
    ELSE LET query_lower    == CollapseSpaces(Strip(StrLower(query)))
             words          == Split(query_lower)
             filtered       == Without(words, FILLER_WORDS)
             filtered_words == IF Len(filtered) < 2 THEN KeepStructure(words) ELSE filtered
         IN  IF Len(filtered_words) > 0 THEN Join(filtered_words, " ") ELSE query_lower

CleanTokens == {"Hi ", "please", "thanks ", "kfc", " ", "\t"}

CleanQueries == Concats(CleanTokens, MaxTokens)

NoCleanCall == [orig |-> "", arg |-> "", ret |-> "", n |-> 0]

\* a caller cleans a raw query
CleanQuery ==
    /\ cq.n = 0
    /\ \E q \in CleanQueries :
          cq' = [orig |-> q, arg |-> q, ret |-> clean_query(q), n |-> 1]
    /\ UNCHANGED <<rk, system, call, ret, services>>

\* the caller cleans the string it got back
CleanAgain ==
    /\ cq.n = 1
    /\ cq' = [orig |-> cq.orig, arg |-> cq.ret, ret |-> clean_query(cq.ret), n |-> 2]
    /\ UNCHANGED <<rk, system, call, ret, services>>

\* extract_key_terms(query)['restaurants'] and ['food_terms']
restaurant_keywords == <<"kfc", "pizza hut", "cheezious", "pizza", "burger", "chicken">>

food_term_words == {"deal", "price", "menu", "pizza", "burger", "chicken", "combo", "delivery"}

extract_key_terms(query) ==
    Once(clean_query(query), LAMBDA cleaned :
        [restaurants   |-> SelectSeq(restaurant_keywords, LAMBDA r : StrIn(r, cleaned)),
         food_terms    |-> SelectSeq(Split(cleaned), LAMBDA word : word \in food_term_words),
         cleaned_query |-> cleaned])

create_search_query(original_query) ==
    Once(clean_query(original_query), LAMBDA cleaned :
    Once(extract_key_terms(original_query), LAMBDA key_terms :
        LET search_terms == key_terms.restaurants \o key_terms.food_terms
            remaining_words ==
                SelectSeq(Split(cleaned),
                          LAMBDA w : w \notin {search_terms[i] : i \in DOMAIN search_terms}
                                     /\ w \notin FILLER_WORDS)
            all_terms    == search_terms \o SubSeq(remaining_words, 1, Min(5, Len(remaining_words)))
        IN  IF Len(all_terms) > 0 THEN Join(all_terms, " ") ELSE cleaned))

-----------------------------------------------------------------------------
(* Scores and sorting *)

\* the float 1.0 in fixed point
One == 2520 * 100

\* x * 0.t
Weighted(x, tenths) == (x * tenths) \div 10

\* dict.get(key, default)
Get(d, key, default) == IF key \in DOMAIN d THEN d[key] ELSE default

\* position of element i of `keys` after list.sort(reverse=True): descending,
\* equal keys keep their original order
RankDesc(keys, i) ==
    1 + Cardinality({j \in DOMAIN keys : keys[j] > keys[i] \/ (keys[j] = keys[i] /\ j < i)})

\* A slip: an unstable sort that puts later equal elements first.
RankDescUnstable(keys, i) ==
    1 + Cardinality({j \in DOMAIN keys : keys[j] > keys[i] \/ (keys[j] = keys[i] /\ j > i)})

\* sorted(seq, key=..., reverse=True), keys[i] being the key of seq[i]
SortedDesc(seq, keys) ==
    Once(keys, LAMBDA key :
        [r \in DOMAIN seq |-> seq[CHOOSE i \in DOMAIN seq : RankDesc(key, i) = r]])

\* any(kw in text for kw in kws)
AnyIn(kws, text) == \E kw \in kws : StrIn(kw, text)

RECURSIVE SkipSpaces(_, _)
SkipSpaces(s, i) ==
    IF i <= Len(s) /\ IsSpace(CharAt(s, i)) THEN SkipSpaces(s, i + 1) ELSE i

\* re.search(r'rs\.?\s*\d+', text, re.IGNORECASE)
HasRsDigits(text) ==
    \E i \in 1..Len(text) :
        /\ StrLower(Slice(text, i, i + 1)) = "rs"
        /\ LET j == IF CharAt(text, i + 2) = "." THEN i + 3 ELSE i + 2
               k == SkipSpaces(text, j)
           IN  k <= Len(text) /\ IsDigit(CharAt(text, k))

\* re.search(r'Rs\.\s*\d+', text, re.IGNORECASE)
HasRsDotDigits(text) ==
    \E i \in 1..Len(text) :
        /\ StrLower(Slice(text, i, i + 2)) = "rs."
        /\ LET k == SkipSpaces(text, i + 3)
           IN  k <= Len(text) /\ IsDigit(CharAt(text, k))

-----------------------------------------------------------------------------
(* Reranker (utils/reranker.py) *)

price_keywords == {"price", "cost", "rs.", "rupee", "pkr", "how much"}

deal_keywords == {"deal", "offer", "promotion", "special", "combo", "package"}

menu_keywords == {"menu", "item", "dish", "food", "order"}

_calculate_keyword_score(content, query_terms) ==
    IF Len(query_terms) = 0 THEN 0
    ELSE LET matches == Cardinality({i \in DOMAIN query_terms : StrIn(StrLower(query_terms[i]), content)})
         IN  Min(One, (One * matches) \div Len(query_terms))

\* the price part of the query-type score
PriceTypeScore(content, query_lower) ==
    IF AnyIn(price_keywords, query_lower)
    THEN IF HasRsDigits(content) THEN One
         ELSE IF AnyIn({"rs.", "rupee", "price", "cost"}, content) THEN Weighted(One, 3)
         ELSE 0
    ELSE 0

\* A slip: the extra 0.5 is given to any deal chunk, priced or not.
DealTypeScoreNoPriceCheck(content, query_lower) ==
    IF AnyIn(deal_keywords, query_lower)
    THEN IF AnyIn(deal_keywords, content) \/ StrIn("combo", content) \/ StrIn("package", content)
         THEN One
         ELSE 0
    ELSE 0

\* the deal part of the query-type score
DealTypeScore(content, query_lower) ==
    IF AnyIn(deal_keywords, query_lower)
    THEN LET has_deal_keywords == AnyIn(deal_keywords, content)
             has_combo         == StrIn("combo", content) \/ StrIn("package", content)
             has_prices        == HasRsDigits(content)
         IN  (IF has_deal_keywords \/ has_combo THEN Weighted(One, 5) ELSE 0)
             + (IF has_prices /\ (has_deal_keywords \/ has_combo) THEN Weighted(One, 5) ELSE 0)
    ELSE 0

\* the menu part of the query-type score
MenuTypeScore(content, query_lower) ==
    IF AnyIn(menu_keywords, query_lower) /\ AnyIn({"name", "description", "item"}, content)
    THEN Weighted(One, 5)
    ELSE 0

_calculate_query_type_score(content, query) ==
    LET query_lower == StrLower(query)
    IN  Min(One, PriceTypeScore(content, query_lower)
                 + DealTypeScore(content, query_lower)
                 + MenuTypeScore(content, query_lower))

_calculate_metadata_score(metadata, query_terms) ==
    LET restaurant_name == StrLower(Get(metadata, "restaurant_name", ""))
        chunk_type      == StrLower(Get(metadata, "type", ""))
        name_match      == \E i \in DOMAIN query_terms :
                              \/ StrIn(query_terms[i], restaurant_name)
                              \/ StrIn(restaurant_name, query_terms[i])
        TermHas(word)   == \E i \in DOMAIN query_terms : StrIn(word, query_terms[i])
    IN  Min(One, (IF name_match THEN Weighted(One, 5) ELSE 0)
                 + (IF StrIn("menu", chunk_type) /\ TermHas("menu") THEN Weighted(One, 3) ELSE 0)
                 + (IF StrIn("deal", chunk_type) /\ TermHas("deal") THEN Weighted(One, 3) ELSE 0))

\* A slip: the weights are added without the final cap, and the base score
\* takes the similarity whole.
RelevanceUncapped(chunk, query, query_terms) ==
    LET content == StrLower(Get(chunk, "content", ""))
    IN  Get(chunk, "similarity", 0)
        + Weighted(_calculate_keyword_score(content, query_terms), 3)
        + Weighted(_calculate_query_type_score(content, query), 2)
        + Weighted(_calculate_metadata_score(Get(chunk, "metadata", <<>>), query_terms), 1)

calculate_relevance_score(chunk, query, query_terms) ==
    LET content          == StrLower(Get(chunk, "content", ""))
        similarity       == Get(chunk, "similarity", 0)
        metadata         == Get(chunk, "metadata", <<>>)
        base_score       == Weighted(similarity, 4)
        keyword_score    == _calculate_keyword_score(content, query_terms)
        query_type_score == _calculate_query_type_score(content, query)
        metadata_score   == _calculate_metadata_score(metadata, query_terms)
        total_score      == base_score + Weighted(keyword_score, 3)
                            + Weighted(query_type_score, 2) + Weighted(metadata_score, 1)
    IN  Min(One, total_score)

\* chunk.copy() with one more key
With(chunk, key, value) ==
    [k \in DOMAIN chunk \cup {key} |-> IF k = key THEN value ELSE chunk[k]]

rerank(chunks, query, query_terms) ==
    Once([i \in DOMAIN chunks |->
             With(chunks[i], "rerank_score", calculate_relevance_score(chunks[i], query, query_terms))],
         LAMBDA scored_chunks :
             SortedDesc(scored_chunks, [i \in DOMAIN chunks |-> scored_chunks[i]["rerank_score"]]))

\* A slip: the top top_k passages are kept, with no cap of 5.
FinalChunksUncapped(retrieved_chunks, query, query_terms, top_k) ==
    Once(rerank(retrieved_chunks, query, query_terms), LAMBDA reranked_chunks :
    Once([i \in DOMAIN reranked_chunks |->
             With(reranked_chunks[i], "final_score",
                  Weighted(reranked_chunks[i]["similarity"], 4)
                  + Weighted(reranked_chunks[i]["rerank_score"], 6))],
         LAMBDA with_final :
    Once(SortedDesc(with_final, [i \in DOMAIN with_final |-> with_final[i]["final_score"]]),
         LAMBDA sorted :
             SubSeq(sorted, 1, Min(top_k, Len(sorted))))))

\* _hybrid_search, lines 323-341: rerank, blend into final_score, sort, keep the top
FinalChunks(retrieved_chunks, query, query_terms, top_k) ==
    Once(rerank(retrieved_chunks, query, query_terms), LAMBDA reranked_chunks :
    Once([i \in DOMAIN reranked_chunks |->
             With(reranked_chunks[i], "final_score",
                  Weighted(reranked_chunks[i]["similarity"], 4)
                  + Weighted(reranked_chunks[i]["rerank_score"], 6))],
         LAMBDA with_final :
    Once(SortedDesc(with_final, [i \in DOMAIN with_final |-> with_final[i]["final_score"]]),
         LAMBDA sorted :
             SubSeq(sorted, 1, Min(Min(top_k, 5), Len(sorted))))))

\* the sequences of length at most n over `set`
RECURSIVE SeqsUpTo(_, _)
SeqsUpTo(set, n) ==
    IF n = 0 THEN {<<>>}
    ELSE LET shorter == SeqsUpTo(set, n - 1)
         IN  shorter \cup {Append(t, x) : t \in shorter, x \in set}

RerankContents ==
    {"Family Deal Rs. 1,249 combo", "combo", "Combo price item", "Zinger burger Rs 450", "special offer"}

RerankQueries == {"any deal", "KFC combo price", "menu", "hello"}

RerankTermLists == SeqsUpTo({"deal", "kfc", "menu"}, MaxTerms)

RerankMetadata ==
    {<<>>, [restaurant_name |-> "KFC", type |-> "deal"], [restaurant_name |-> "Pizza Hut", type |-> "menu"]}

RerankSimilarities == {0, One \div 2, One}

RerankChunk(content, similarity, metadata) ==
    [restaurant_id |-> "kfc", restaurant_name |-> "KFC", content |-> content,
     similarity |-> similarity, metadata |-> metadata]

\* the similarity of a passage at L2 distance 0.6: 1 / (1 + 0.6) = 5/8
NearSimilarity == (5 * One) \div 8

\* the passage lists handed to the reranker: every single passage, every pair
\* of passages that differ in content only, and every pair of an exact hit
\* followed by a hit at distance 0.6 (the backend returns by increasing distance)
RerankInputs ==
    {<<RerankChunk(c, sim, md)>> : c \in RerankContents, sim \in RerankSimilarities, md \in RerankMetadata}
    \cup {<<RerankChunk(c1, One \div 2, <<>>), RerankChunk(c2, One \div 2, <<>>)>> :
            c1 \in RerankContents, c2 \in RerankContents}
    \cup {<<RerankChunk(c1, One, <<>>), RerankChunk(c2, NearSimilarity, <<>>)>> :
            c1 \in RerankContents, c2 \in RerankContents}

TopKs == {1, 20}

NoRerankCall == [op |-> "none"]

\* the query-type sub-score of each passage, a local of calculate_relevance_score
QueryTypeScores(chunks, query) ==
    [i \in DOMAIN chunks |->
        _calculate_query_type_score(StrLower(Get(chunks[i], "content", "")), query)]

\* Reranker.rerank(chunks, query, query_terms); the query-type sub-scores are
\* kept beside the result
Rerank ==
    /\ rk.op = "none"
    /\ \E chunks \in RerankInputs, query \in RerankQueries, query_terms \in RerankTermLists :
          rk' = [op |-> "rerank", chunks |-> chunks, query |-> query, query_terms |-> query_terms,
                 query_type_score |-> QueryTypeScores(chunks, query),
                 ret |-> rerank(chunks, query, query_terms)]
    /\ UNCHANGED <<cq, system, call, ret, services>>

\* the reranking stage of _hybrid_search on the retrieved chunks
HybridRerank ==
    /\ rk.op = "none"
    /\ \E chunks \in RerankInputs, query \in RerankQueries, query_terms \in RerankTermLists,
          top_k \in TopKs :
          rk' = [op |-> "final", chunks |-> chunks, query |-> query, query_terms |-> query_terms,
                 query_type_score |-> QueryTypeScores(chunks, query),
                 ret |-> FinalChunks(chunks, query, query_terms, top_k)]
    /\ UNCHANGED <<cq, system, call, ret, services>>

\* the caller drops the ranked passages
RerankDone ==
    /\ rk.op # "none"
    /\ rk' = NoRerankCall
    /\ UNCHANGED <<cq, system, call, ret, services>>

-----------------------------------------------------------------------------
(* MultiRestaurantRAGSystem (utils/rag_system.py): restaurant detection *)

\* data/restaurant_index.json as load_restaurant_index() reads it
KFC ==
    [id |-> "kfc", name |-> "KFC", file |-> "kfc.json",
     keywords |-> <<"kfc", "Kentucky">>,
     food_categories |-> <<"chicken", "burger", "combo">>]

PizzaHut ==
    [id |-> "pizza_hut", name |-> "Pizza Hut", file |-> "pizza_hut.json",
     keywords |-> <<"pizza hut", "pizzahut">>,
     food_categories |-> <<"pizza", "pasta">>]

Cheezious ==
    [id |-> "cheezious", name |-> "Cheezious", file |-> "cheezious.json",
     keywords |-> <<"cheezious">>,
     food_categories |-> <<"pizza", "burger", "combo">>]

Subway ==
    [id |-> "subway", name |-> "Subway", file |-> "subway.json",
     keywords |-> <<"subway">>,
     food_categories |-> <<"sandwich", "rice", "drink">>]

Registries ==
    {<<KFC, PizzaHut, Cheezious>>, <<Cheezious, PizzaHut, KFC>>, <<PizzaHut, KFC>>, <<KFC, Subway>>}

\* the food category mappings, in the dict's order
food_categories ==
    << [category |-> "pizza",    keywords |-> <<"pizza", "margherita", "pepperoni", "pan pizza", "stuffed crust">>],
       [category |-> "burger",   keywords |-> <<"burger", "cheeseburger", "chicken burger", "beef burger">>],
       [category |-> "chicken",  keywords |-> <<"chicken", "fried chicken", "grilled chicken", "chicken wings", "zinger">>],
       [category |-> "pasta",    keywords |-> <<"pasta", "spaghetti", "macaroni", "penne", "fettuccine">>],
       [category |-> "sandwich", keywords |-> <<"sandwich", "sub", "wrap", "panini">>],
       [category |-> "rice",     keywords |-> <<"rice", "biryani", "fried rice", "pulao">>],
       [category |-> "dessert",  keywords |-> <<"dessert", "ice cream", "cake", "sweet", "chocolate">>],
       [category |-> "drink",    keywords |-> <<"drink", "beverage", "juice", "soda", "coffee", "tea">>],
       [category |-> "combo",    keywords |-> <<"combo", "meal", "deal", "package", "set">>] >>

\* [x for x in seq if Test(x)]
Filter(seq, Test(_)) == SelectSeq(seq, Test)

\* the keywords of a registry entry that occur in the query
KeywordsFound(restaurant, query_lower) ==
    Filter(Get(restaurant, "keywords", <<>>), LAMBDA keyword : StrIn(StrLower(keyword), query_lower))

_detect_explicit_restaurant_mentions(index, query_lower) ==
    LET Entry(restaurant) ==
            [id |-> restaurant["id"], name |-> restaurant["name"],
             confidence |-> 2 * Len(KeywordsFound(restaurant, query_lower)),
             keywords_found |-> KeywordsFound(restaurant, query_lower),
             detection_type |-> "explicit"]
        all == [i \in DOMAIN index |-> Entry(index[i])]
    IN  Filter(all, LAMBDA e : e.confidence > 0)

\* the categories of the table of which some keyword occurs in the query
MentionedCategories(query_lower) ==
    LET hit == Filter(food_categories,
                      LAMBDA c : \E k \in DOMAIN c.keywords : StrIn(c.keywords[k], query_lower))
    IN  [i \in DOMAIN hit |-> hit[i].category]

_detect_food_category_matches(index, query_lower) ==
    LET mentioned_categories == MentionedCategories(query_lower)
        Matching(restaurant) ==
            Filter(mentioned_categories,
                   LAMBDA category : category \in Range(Get(restaurant, "food_categories", <<>>)))
        Entry(restaurant) ==
            [id |-> restaurant["id"], name |-> restaurant["name"],
             confidence |-> Len(Matching(restaurant)),
             matching_categories |-> Matching(restaurant),
             detection_type |-> "food_category"]
        all == [i \in DOMAIN index |-> Entry(index[i])]
    IN  Filter(all, LAMBDA e : e.confidence > 0)

\* A slip: an entry found by both passes keeps its explicit confidence only.
MergeDetectionNoBoost(explicit, category) ==
    With(explicit, "detection_type", "explicit_and_category")

\* "If already detected explicitly, boost confidence"
MergeDetection(explicit, category) ==
    With(With(explicit, "confidence", explicit.confidence + category.confidence),
         "detection_type", "explicit_and_category")

\* A slip: the detections are returned in dict order, unsorted.
DetectedUnsorted(detected) == detected

\* detected_restaurants.sort(key=lambda x: x["confidence"], reverse=True)
SortByConfidence(detected) ==
    SortedDesc(detected, [i \in DOMAIN detected |-> detected[i].confidence])

\* the entry of `list` with this id (ids are unique in a pass's result)
ById(list, id) == list[CHOOSE i \in DOMAIN list : list[i].id = id]

HasId(list, id) == \E i \in DOMAIN list : list[i].id = id

detect_restaurants_in_query(index, query) ==
    LET query_lower == StrLower(query)
        explicit_restaurants      == _detect_explicit_restaurant_mentions(index, query_lower)
        food_category_restaurants == _detect_food_category_matches(index, query_lower)
        \* all_detected, in the dict's insertion order
        merged ==
            [i \in DOMAIN explicit_restaurants |->
                IF HasId(food_category_restaurants, explicit_restaurants[i].id)
                THEN MergeDetection(explicit_restaurants[i],
                                    ById(food_category_restaurants, explicit_restaurants[i].id))
                ELSE explicit_restaurants[i]]
        category_only ==
            Filter(food_category_restaurants, LAMBDA r : ~HasId(explicit_restaurants, r.id))
    IN  SortByConfidence(merged \o category_only)

-----------------------------------------------------------------------------
(* MultiRestaurantRAGSystem: hybrid search *)

\* what a call gives back: a value, or an exception that left it
Returned(value) == [raised |-> FALSE, value |-> value]

Raised == [raised |-> TRUE, value |-> <<>>]

\* A slip: the handler lets the exception through (a bare "raise" at its end).
CatchNothing(result, fallback) == result

\* try: ... except Exception: return fallback
Catch(result, fallback) ==
    Once(result, LAMBDA outcome : IF outcome.raised THEN Returned(fallback) ELSE outcome)

MIN_SIMILARITY_THRESHOLD == -(One \div 2)

\* distance, in tenths, to similarity
_l2_to_similarity(distance) ==
    IF distance <= 0 THEN One
    ELSE Max(0, (One * 10) \div (10 + distance))

\* the arguments of restaurant_collection.query(); restaurant_ids is <<>> for None
\* A slip: the over-fetch of a query without price or deal words is not capped.
search_k_uncapped(query, restaurant_ids, top_k) ==
    IF AnyIn({"price", "prices", "cost", "how much", "deal"}, StrLower(query))
    THEN Min(top_k * 3, 20)
    ELSE top_k * 2

\* lines 273-280: how many candidates to ask the backend for
search_k(query, restaurant_ids, top_k) ==
    IF AnyIn({"price", "prices", "cost", "how much", "deal"}, StrLower(query))
    THEN Min(top_k * 3, 20)
    ELSE IF Len(restaurant_ids) > 1 THEN Min(top_k * 2, 15)
         ELSE Min(top_k * 2, 10)

HybridRequest(query, restaurant_ids, top_k) ==
    LET processed_query == create_search_query(query)
        where_clause    == IF Len(restaurant_ids) = 1
                           THEN [restaurant_id |-> restaurant_ids[1]]
                           ELSE <<>>
    IN  [query_texts |-> <<processed_query>>,
         n_results   |-> Min(search_k(query, restaurant_ids, top_k),
                             Len(restaurant_collection)),
         where       |-> where_clause]

\* the distances, in tenths, the backend reports: similarity 1.0 and 0.5
Distances == {0, 10}

\* The similarity backend (chromadb, not part of the repository): it raises, or
\* returns at most n_results distinct documents that satisfy the equality
\* filter, by increasing distance.
BackendOutcomes(request) ==
    LET Hit == [doc : DOMAIN restaurant_collection, distance : Distances]
        Matches(h) ==
            "restaurant_id" \in DOMAIN request.where =>
                restaurant_collection[h.doc].metadata.restaurant_id = request.where.restaurant_id
        lists == {hits \in SeqsUpTo(Hit, Min(MaxHits, request.n_results)) :
                    /\ \A i \in DOMAIN hits : Matches(hits[i])
                    /\ \A i, j \in DOMAIN hits :
                          i < j => /\ hits[i].doc # hits[j].doc
                                   /\ hits[i].distance <= hits[j].distance}
    IN  {[raises |-> TRUE, hits |-> <<>>]} \cup {[raises |-> FALSE, hits |-> hits] : hits \in lists}

\* The backend's answers that are enumerated for a collection of more documents:
\* it raises, or returns the first documents, in the collection's order, that
\* satisfy the filter, at most n_results of them, as exact hits.
PrefixOutcomes(request) ==
    LET Matches(doc) ==
            "restaurant_id" \in DOMAIN request.where =>
                restaurant_collection[doc].metadata.restaurant_id = request.where.restaurant_id
        docs == SelectSeq([i \in DOMAIN restaurant_collection |-> i], Matches)
    IN  {[raises |-> TRUE, hits |-> <<>>]}
        \cup {[raises |-> FALSE,
               hits   |-> [i \in 1..n |-> [doc |-> docs[i], distance |-> 0]]] :
                 n \in 0..Min(request.n_results, Len(docs))}

\* A slip: with several ids the hits are not filtered after retrieval.
RetrievedChunksUnfiltered(hits, restaurant_ids) ==
    LET Metadata(h) == restaurant_collection[h.doc].metadata
        kept == SelectSeq(hits, LAMBDA h : ~(_l2_to_similarity(h.distance) < MIN_SIMILARITY_THRESHOLD))
    IN  [i \in DOMAIN kept |->
            [restaurant_id   |-> Get(Metadata(kept[i]), "restaurant_id", "unknown"),
             restaurant_name |-> Get(Metadata(kept[i]), "restaurant_name", "Unknown"),
             content         |-> restaurant_collection[kept[i].doc].document,
             similarity      |-> _l2_to_similarity(kept[i].distance),
             metadata        |-> Metadata(kept[i])]]

\* _hybrid_search, lines 292-320: the chunks kept from the backend's hits
RetrievedChunks(hits, restaurant_ids) ==
    LET Metadata(h) == restaurant_collection[h.doc].metadata
        Kept(h) ==
            /\ Len(restaurant_ids) > 1 =>
                  /\ "restaurant_id" \in DOMAIN Metadata(h)
                  /\ Metadata(h).restaurant_id \in Range(restaurant_ids)
            /\ ~(_l2_to_similarity(h.distance) < MIN_SIMILARITY_THRESHOLD)
        kept == SelectSeq(hits, Kept)
    IN  [i \in DOMAIN kept |->
            [restaurant_id   |-> Get(Metadata(kept[i]), "restaurant_id", "unknown"),
             restaurant_name |-> Get(Metadata(kept[i]), "restaurant_name", "Unknown"),
             content         |-> restaurant_collection[kept[i].doc].document,
             similarity      |-> _l2_to_similarity(kept[i].distance),
             metadata        |-> Metadata(kept[i])]]

_hybrid_search(query, restaurant_ids, top_k, outcome) ==
    IF ~use_vector_db \/ Len(restaurant_collection) = 0 THEN Returned(<<>>)
    ELSE LET results == IF outcome.raises THEN Raised ELSE Returned(outcome.hits)
         IN  IF results.raised THEN Catch(results, <<>>)
             ELSE Once(extract_key_terms(query), LAMBDA terms :
                  Once(RetrievedChunks(results.value, restaurant_ids), LAMBDA retrieved_chunks :
                      Returned(FinalChunks(retrieved_chunks, query,
                                           terms.food_terms \o terms.restaurants, top_k))))

search_vector_db(query, restaurant_ids, top_k, outcome) ==
    Catch(_hybrid_search(query, restaurant_ids, top_k, outcome), <<>>)

-----------------------------------------------------------------------------
(* MultiRestaurantRAGSystem: search_comprehensive_info *)

\* the first position at which re.search(r'rs\.?\s*(\d+)', text, re.IGNORECASE)
\* matches, and the position of its first digit; 0 when there is no match
RsDigitsAt(text, i) ==
    IF StrLower(Slice(text, i, i + 1)) = "rs"
    THEN LET j == IF CharAt(text, i + 2) = "." THEN i + 3 ELSE i + 2
             k == SkipSpaces(text, j)
         IN  IF k <= Len(text) /\ IsDigit(CharAt(text, k)) THEN k ELSE 0
    ELSE 0

RECURSIVE TakeDigits(_, _)
TakeDigits(text, k) ==
    IF k <= Len(text) /\ IsDigit(CharAt(text, k))
    THEN CharAt(text, k) \o TakeDigits(text, k + 1)
    ELSE ""

\* price_match.group(1), or "" when nothing matches
FirstRsDigits(text) ==
    LET starts == {i \in 1..Len(text) : RsDigitsAt(text, i) > 0}
    IN  IF starts = {} THEN ""
        ELSE TakeDigits(text, RsDigitsAt(text, CHOOSE i \in starts : \A j \in starts : i <= j))

\* seq[:n]
Take(seq, n) == SubSeq(seq, 1, Min(n, Len(seq)))

\* the registry name of a restaurant id, or the id itself
RegistryName(rid) ==
    IF \E i \in DOMAIN restaurant_index : restaurant_index[i]["id"] = rid
    THEN restaurant_index[CHOOSE i \in DOMAIN restaurant_index :
                             /\ restaurant_index[i]["id"] = rid
                             /\ \A j \in 1..(i - 1) : restaurant_index[j]["id"] # rid]["name"]
    ELSE rid

\* vector mode, lines 381-436: the result entry of one restaurant
VectorResult(rid, retrieved_chunks) ==
    LET chunks == SelectSeq(retrieved_chunks, LAMBDA c : c["restaurant_id"] = rid)
        priced == SelectSeq(chunks,
                      LAMBDA c : /\ AnyIn({"price", "rs", "rupee", "cost"}, StrLower(c["content"]))
                                 /\ FirstRsDigits(StrLower(c["content"])) # "")
        menu_items ==
            [i \in DOMAIN priced |->
                [name        |-> Get(priced[i]["metadata"], "chunk_index", "Item"),
                 price       |-> "Rs. " \o FirstRsDigits(StrLower(priced[i]["content"])),
                 description |-> Prefix(priced[i]["content"], 200),
                 relevance   |-> priced[i]["similarity"]]]
        dealing == SelectSeq(chunks,
                      LAMBDA c : AnyIn({"deal", "offer", "combo", "special", "promotion"},
                                       StrLower(c["content"])))
        deals ==
            [i \in DOMAIN dealing |->
                [name        |-> "Deal from PDF",
                 description |-> Prefix(dealing[i]["content"], 200),
                 relevance   |-> dealing[i]["similarity"]]]
    IN  [id   |-> rid,
         name |-> RegistryName(rid),
         data |-> [menu_items    |-> Take(menu_items, 10),
                   deals         |-> Take(deals, 5),
                   general_info  |-> <<>>,
                   location_info |-> <<>>,
                   chunks        |-> chunks]]

\* _calculate_relevance, in tenths
_calculate_relevance(query, item) ==
    LET item_name   == StrLower(Get(item, "name", ""))
        description == StrLower(Get(item, "description", ""))
        words       == Range(Split(query))
    IN  (IF StrIn(query, item_name) THEN 100
         ELSE IF \E w \in words : StrIn(w, item_name) THEN 50 ELSE 0)
        + (IF StrIn(query, description) THEN 30
           ELSE IF \E w \in words : StrIn(w, description) THEN 15 ELSE 0)
        + (IF /\ AnyIn({"deal", "offer", "combo", "special"}, query)
              /\ AnyIn({"deal", "special", "combo"}, item_name)
           THEN 50 ELSE 0)
        + (IF AnyIn({"price", "cost", "rs", "rupee"}, query) /\ Get(item, "price", "") # ""
           THEN 20 ELSE 0)

\* the concatenation of a sequence of sequences
RECURSIVE Flatten(_)
Flatten(seqs) == IF Len(seqs) = 0 THEN <<>> ELSE Head(seqs) \o Flatten(Tail(seqs))

\* the lists of a menu with the section name each is filed under: a section
\* is a list of items, or a dict of subsections that are lists
MenuLists(menu) ==
    Flatten([s \in DOMAIN menu |->
        IF menu[s].kind = "list"
        THEN << [section |-> menu[s].name, items |-> menu[s].items] >>
        ELSE LET subs == SelectSeq(menu[s].subsections, LAMBDA sub : sub.kind = "list")
             IN  [u \in DOMAIN subs |->
                     [section |-> menu[s].name \o " - " \o subs[u].name, items |-> subs[u].items]]])

\* menu["deals"].items(): the lists of the deals section with their category
DealLists(menu) ==
    Flatten([s \in DOMAIN menu |->
        IF menu[s].name = "deals" /\ menu[s].kind = "dict"
        THEN LET subs == SelectSeq(menu[s].subsections, LAMBDA sub : sub.kind = "list")
             IN  [u \in DOMAIN subs |-> [category |-> subs[u].name, items |-> subs[u].items]]
        ELSE <<>>])

\* JSON mode, lines 438-515: the result entry of one restaurant that has data
JsonResult(restaurant_id, query) ==
    LET data        == restaurant_data[restaurant_id]
        brand       == Get(data, "brand", <<>>)
        branches    == Get(data, "branches", <<>>)
        menu        == Get(data, "menu", <<>>)
        query_lower == StrLower(query)
        found ==
            Flatten([l \in DOMAIN MenuLists(menu) |->
                LET list == MenuLists(menu)[l]
                    hits == SelectSeq(list.items, LAMBDA item : _calculate_relevance(query_lower, item) > 0)
                IN  [i \in DOMAIN hits |->
                        [section |-> list.section, item |-> hits[i],
                         relevance |-> _calculate_relevance(query_lower, hits[i])]]])
        deals ==
            Flatten([l \in DOMAIN DealLists(menu) |->
                LET list == DealLists(menu)[l]
                    hits == SelectSeq(list.items, LAMBDA deal : _calculate_relevance(query_lower, deal) > 0)
                IN  [i \in DOMAIN hits |-> [category |-> list.category, deal |-> hits[i]]]])
    IN  [id   |-> restaurant_id,
         name |-> Get(brand, "name", restaurant_id),
         data |-> [menu_items    |-> SortedDesc(found, [i \in DOMAIN found |-> found[i].relevance]),
                   deals         |-> deals,
                   general_info  |-> [name        |-> Get(brand, "name", ""),
                                      description |-> Get(brand, "description", ""),
                                      founded     |-> Get(brand, "founded", ""),
                                      country     |-> Get(brand, "country", ""),
                                      usp         |-> Get(brand, "usp", <<>>)],
                   location_info |-> [cities         |-> Get(branches, "cities", <<>>),
                                      hours          |-> Get(branches, "hours", ""),
                                      total_branches |-> Get(branches, "total_branches", "")],
                   pricing_info  |-> <<>>]]

\* search_comprehensive_info: "results" is the dict in insertion order, one
\* entry per id; retrieved_chunks is kept beside it for the record
search_comprehensive_info(query, restaurant_ids, outcome) ==
    IF use_vector_db
    THEN Once(Catch(search_vector_db(query, restaurant_ids, 20, outcome), <<>>),
              LAMBDA searched :
                  IF searched.raised THEN Raised
                  ELSE Returned([query |-> query,
                                 restaurants_searched |-> restaurant_ids,
                                 results |-> [i \in DOMAIN restaurant_ids |->
                                                 VectorResult(restaurant_ids[i], searched.value)],
                                 summary |-> "",
                                 retrieved_chunks |-> searched.value]))
    ELSE LET with_data == SelectSeq(restaurant_ids, LAMBDA rid : rid \in DOMAIN restaurant_data)
         IN  Returned([query |-> query,
                       restaurants_searched |-> restaurant_ids,
                       results |-> [i \in DOMAIN with_data |-> JsonResult(with_data[i], query)],
                       summary |-> "",
                       retrieved_chunks |-> <<>>])

-----------------------------------------------------------------------------
(* MultiRestaurantRAGSystem: context assembly *)

\* length of the content signature that tells near-duplicate chunks apart
SignatureLength == 150

\* chunks kept per restaurant
MaxSelectedChunks == 3

\* A slip: the signature keeps the case of the content.
ContentSignatureCased(chunk) == Prefix(chunk["content"], SignatureLength)

\* content_sig = chunk["content"][:150].lower()
ContentSignature(chunk) == StrLower(Prefix(chunk["content"], SignatureLength))

\* A slip: the selection does not stop at three chunks.
RECURSIVE SelectDiverseUncapped(_, _, _)
SelectDiverseUncapped(scored_chunks, selected_chunks, seen_content_prefixes) ==
    IF Len(scored_chunks) = 0 THEN selected_chunks
    ELSE Once(ContentSignature(Head(scored_chunks)), LAMBDA content_sig :
             IF content_sig \notin seen_content_prefixes
             THEN SelectDiverseUncapped(Tail(scored_chunks),
                                        Append(selected_chunks, Head(scored_chunks)),
                                        seen_content_prefixes \cup {content_sig})
             ELSE SelectDiverseUncapped(Tail(scored_chunks), selected_chunks,
                                        seen_content_prefixes))

\* lines 588-599: the first chunks with pairwise distinct signatures, three at most
RECURSIVE SelectDiverse(_, _, _)
SelectDiverse(scored_chunks, selected_chunks, seen_content_prefixes) ==
    IF Len(scored_chunks) = 0 \/ Len(selected_chunks) >= MaxSelectedChunks THEN selected_chunks
    ELSE Once(ContentSignature(Head(scored_chunks)), LAMBDA content_sig :
             IF content_sig \notin seen_content_prefixes
             THEN SelectDiverse(Tail(scored_chunks), Append(selected_chunks, Head(scored_chunks)),
                                seen_content_prefixes \cup {content_sig})
             ELSE SelectDiverse(Tail(scored_chunks), selected_chunks, seen_content_prefixes))

\* lines 578-599
SelectedChunks(chunks) ==
    Once(SortedDesc(chunks,
                    [i \in DOMAIN chunks |->
                        Get(chunks[i], "final_score", Get(chunks[i], "similarity", 0))]),
         LAMBDA scored_chunks : SelectDiverse(scored_chunks, <<>>, {}))

\* the position after a match of r'Rs\.\s*,\s*(\d+)' at i, with the position
\* of its first digit; <<0, 0>> when there is none
RsCommaAt(text, i) ==
    IF Slice(text, i, i + 2) = "Rs."
    THEN LET j == SkipSpaces(text, i + 3)
         IN  IF CharAt(text, j) = ","
             THEN LET k == SkipSpaces(text, j + 1)
                  IN  IF IsDigit(CharAt(text, k))
                      THEN <<k, k + Len(TakeDigits(text, k))>>
                      ELSE <<0, 0>>
             ELSE <<0, 0>>
    ELSE <<0, 0>>

\* re.sub(r'Rs\.\s*,\s*(\d+)', r'Rs. \1', text): the matches cannot overlap,
\* so the text is rebuilt from match to match
RECURSIVE FixPricesFrom(_, _)
FixPricesFrom(text, i) ==
    LET starts == {j \in i..Len(text) : RsCommaAt(text, j)[1] > 0}
    IN  IF starts = {} THEN Slice(text, i, Len(text))
        ELSE LET j == CHOOSE j \in starts : \A k \in starts : j <= k
                 m == RsCommaAt(text, j)
             IN  Slice(text, i, j - 1) \o "Rs. " \o TakeDigits(text, m[1])
                 \o FixPricesFrom(text, m[2])

FixPrices(text) == FixPricesFrom(text, 1)

\* "name: price" of the items of a list that have a price
PricedLines(items, with_description) ==
    LET priced == SelectSeq(items, LAMBDA item : Get(item, "price", "") # "")
    IN  [i \in DOMAIN priced |->
            Get(priced[i], "name", "") \o ": " \o priced[i]["price"]
            \o (IF with_description /\ Get(priced[i], "description", "") # ""
                THEN " - " \o priced[i]["description"] ELSE "")]

_extract_json_prices(restaurant_id, query) ==
    IF restaurant_id \notin DOMAIN restaurant_data THEN ""
    ELSE LET menu        == Get(restaurant_data[restaurant_id], "menu", <<>>)
             query_lower == StrLower(query)
             asking_about_deals  == AnyIn({"deal", "offer", "combo", "special"}, query_lower)
             asking_about_prices == AnyIn({"price", "prices", "cost", "how much"}, query_lower)
             deal_lines ==
                 IF asking_about_deals
                 THEN Flatten([l \in DOMAIN DealLists(menu) |->
                                  PricedLines(DealLists(menu)[l].items, TRUE)])
                 ELSE <<>>
             sections == SelectSeq(menu, LAMBDA section : section.name # "deals")
             menu_lines ==
                 IF asking_about_prices
                 THEN Flatten([s \in DOMAIN sections |->
                         IF sections[s].kind = "list"
                         THEN PricedLines(Take(sections[s].items, 5), FALSE)
                         ELSE LET subs == SelectSeq(sections[s].subsections,
                                                    LAMBDA sub : sub.kind = "list")
                              IN  Flatten([u \in DOMAIN subs |->
                                              PricedLines(Take(subs[u].items, 3), FALSE)])])
                 ELSE <<>>
             price_info == deal_lines \o menu_lines
         IN  IF Len(price_info) > 0
             THEN "Price Information:\n" \o Join(price_info, "\n")
             ELSE ""

\* lines 574-627: the body of a restaurant's section in vector mode
VectorBody(restaurant_id, data, query) ==
    Once(SelectedChunks(data.chunks), LAMBDA selected_chunks :
    Once(FixPrices(Join([i \in DOMAIN selected_chunks |-> selected_chunks[i]["content"]],
                        "\n\n---\n\n")),
         LAMBDA fixed :
    Once(IF ~HasRsDotDigits(fixed) /\ restaurant_id \in DOMAIN restaurant_data
         THEN _extract_json_prices(restaurant_id, query)
         ELSE "",
         LAMBDA json_supplement :
             LET relevant_text == IF json_supplement # ""
                                  THEN fixed \o "\n\n---\n\n" \o json_supplement
                                  ELSE fixed
             IN  IF Len(selected_chunks) > 0 /\ relevant_text # ""
                 THEN <<relevant_text>> ELSE <<>>)))

\* the bullet line (the bullet written as an asterisk) and the description of an item or a deal
ItemLines(item, default_name) ==
    << "* " \o Get(item, "name", default_name) \o " - " \o Get(item, "price", "Price N/A") >>
    \o (IF Get(item, "description", "") # "" THEN << "  " \o item["description"] >> ELSE <<>>)

\* lines 629-662: the body of a restaurant's section in JSON mode
JsonBody(data) ==
    LET general    == Get(data, "general_info", <<>>)
        location   == Get(data, "location_info", <<>>)
        cities     == Get(location, "cities", <<>>)
        menu_items == Take(Get(data, "menu_items", <<>>), 5)
        deals      == Take(Get(data, "deals", <<>>), 3)
    IN  (IF Get(general, "description", "") # ""
         THEN << "Description: " \o general["description"] >> ELSE <<>>)
        \o (IF Get(general, "founded", "") # ""
            THEN << "Founded: " \o general["founded"] >> ELSE <<>>)
        \o (IF Len(cities) > 0
            THEN << "Available in: " \o Join(Take(cities, 5), ", ")
                    \o (IF Len(cities) > 5 THEN "..." ELSE "") >>
            ELSE <<>>)
        \o (IF Get(location, "hours", "") # ""
            THEN << "Hours: " \o location["hours"] >> ELSE <<>>)
        \o (IF Len(menu_items) > 0
            THEN << "Relevant Menu Items:" >>
                 \o Flatten([i \in DOMAIN menu_items |->
                                ItemLines(Get(menu_items[i], "item", <<>>), "Item")])
            ELSE <<>>)
        \o (IF Len(deals) > 0
            THEN << "Available Deals:" >>
                 \o Flatten([i \in DOMAIN deals |-> ItemLines(Get(deals[i], "deal", <<>>), "Deal")])
            ELSE <<>>)

\* A slip: the focus is compared with the restaurant id only.
MatchesFocusIdOnly(entry, focus_restaurant) ==
    StrLower(entry.id) = StrLower(focus_restaurant)

\* the filter of lines 557-560
MatchesFocus(entry, focus_restaurant) ==
    \/ StrLower(entry.id) = StrLower(focus_restaurant)
    \/ StrLower(entry.name) = StrLower(focus_restaurant)

\* lines 553-566; focus_restaurant is "" for None
restaurants_to_include(results, focus_restaurant) ==
    IF focus_restaurant # ""
    THEN LET focused == SelectSeq(results, LAMBDA entry : MatchesFocus(entry, focus_restaurant))
         IN  IF Len(focused) > 0 THEN focused ELSE results
    ELSE results

\* the header line of a restaurant's section
SectionHeader(restaurant_name) == "=== " \o StrUpper(restaurant_name) \o " ==="

\* lines 568-664: the sections of the context, one per included restaurant, each
\* with the chunks selected for it
ContextSections(search_results, focus_restaurant) ==
    Once(restaurants_to_include(search_results.results, focus_restaurant), LAMBDA included :
        LET query == StrLower(Get(search_results, "query", ""))
            Vector(entry) == use_vector_db /\ "chunks" \in DOMAIN entry.data
        IN  [i \in DOMAIN included |->
                [id       |-> included[i].id,
                 name     |-> included[i].name,
                 selected |-> IF Vector(included[i])
                              THEN SelectedChunks(included[i].data.chunks) ELSE <<>>,
                 parts    |-> << SectionHeader(included[i].name) >>
                              \o (IF Vector(included[i])
                                  THEN VectorBody(included[i].id, included[i].data, query)
                                  ELSE JsonBody(included[i].data))
                              \o << "" >>]])

\* "\n".join(context_parts)
ContextOf(sections) == Join(Flatten([i \in DOMAIN sections |-> sections[i].parts]), "\n")

build_comprehensive_context(search_results, focus_restaurant) ==
    Once(ContextSections(search_results, focus_restaurant), ContextOf)

-----------------------------------------------------------------------------
(* MultiRestaurantRAGSystem: process_query *)

_classify_query_type(query) ==
    LET query_lower == StrLower(query)
    IN  IF AnyIn({"deal", "offer", "combo", "special", "promotion"}, query_lower) THEN "deals"
        ELSE IF AnyIn({"price", "cost", "how much", "expensive", "cheap"}, query_lower) THEN "pricing"
        ELSE IF AnyIn({"location", "where", "branch", "near me", "delivery"}, query_lower) THEN "location"
        ELSE IF AnyIn({"menu", "what do you have", "options", "food"}, query_lower) THEN "menu"
        ELSE IF AnyIn({"time", "hours", "open", "close", "when"}, query_lower) THEN "timing"
        ELSE "general"

\* A slip: the whole list is returned.
AllSuggestions(suggestions) == suggestions

\* suggestions[:3]
TopSuggestions(suggestions) == Take(suggestions, 3)

_generate_smart_suggestions(query, detected_restaurants) ==
    LET query_type == _classify_query_type(query)
        several == IF Len(detected_restaurants) > 1
                   THEN << "Would you like to compare prices between these restaurants?",
                           "Which restaurant would you like to know more about?" >>
                   ELSE <<>>
        by_type == IF query_type = "deals"
                   THEN << "Would you like to see more deals and offers?",
                           "Are you interested in family meal deals?",
                           "Would you like to know about delivery deals?" >>
                   ELSE IF query_type = "pricing"
                   THEN << "Would you like to see the most affordable options?",
                           "Are you looking for premium items?",
                           "Would you like to compare prices across restaurants?" >>
                   ELSE IF query_type = "location"
                   THEN << "Would you like to know about delivery options?",
                           "Are you looking for the nearest branch?",
                           "Would you like to know about dine-in hours?" >>
                   ELSE << "Would you like to see more menu options?",
                           "Are you interested in any specific cuisine?",
                           "Would you like to know about special offers?" >>
    IN  TopSuggestions(several \o by_type)

\* the ids of a list of registry entries or detections
Ids(list) == [i \in DOMAIN list |-> list[i]["id"]]

\* A slip: nothing detected, nothing searched.
CandidateIdsNoFallback(detected_restaurants) == Ids(detected_restaurants)

\* lines 753-758: the ids to search
CandidateIds(detected_restaurants) ==
    IF Len(detected_restaurants) = 0 THEN Ids(restaurant_index) ELSE Ids(detected_restaurants)

\* lines 763-778: the focus restaurant, "" for None
\* A slip: the focus is the detection of highest confidence.
FocusTopConfidence(detected_restaurants) ==
    IF \/ Len(detected_restaurants) = 1
       \/ \E i \in DOMAIN detected_restaurants :
             Get(detected_restaurants[i], "detection_type", "")
                 \in {"explicit", "explicit_and_category"}
    THEN detected_restaurants[1]["name"]
    ELSE ""

FocusRestaurant(detected_restaurants) ==
    LET explicit_restaurants ==
            SelectSeq(detected_restaurants,
                      LAMBDA r : Get(r, "detection_type", "") \in {"explicit", "explicit_and_category"})
    IN  IF Len(explicit_restaurants) > 0 THEN explicit_restaurants[1]["name"]
        ELSE IF Len(detected_restaurants) = 1 THEN detected_restaurants[1]["name"]
        ELSE ""

process_query(query, outcome) ==
    Once(detect_restaurants_in_query(restaurant_index, query), LAMBDA detected_restaurants :
    Once(CandidateIds(detected_restaurants), LAMBDA restaurant_ids :
    Once(search_comprehensive_info(query, restaurant_ids, outcome), LAMBDA searched :
        IF searched.raised THEN Raised
        ELSE Returned([detected_restaurants |-> detected_restaurants,
                       search_results       |-> searched.value,
                       context              |-> build_comprehensive_context(
                                                    searched.value,
                                                    FocusRestaurant(detected_restaurants)),
                       suggestions          |-> _generate_smart_suggestions(query, detected_restaurants),
                       query_type           |-> _classify_query_type(query)]))))

\* the queries of at most n words of `words`, separated by single blanks
QueriesOf(words, n) == {Join(ws, " ") : ws \in SeqsUpTo(words, n)}

DetectWords ==
    {"KFC", "KFC deals", "kentucky Zinger", "pizza hut", "prices", "menu", "pizza pasta"}

DetectQueries == QueriesOf(DetectWords, MaxQueryWords)

NoCall == [op |-> "none"]

\* a caller asks which restaurants a query names
Detect ==
    /\ call.op = "none"
    /\ \E query \in DetectQueries :
          /\ call' = [op |-> "detect_restaurants_in_query", query |-> query]
          /\ ret' = detect_restaurants_in_query(restaurant_index, query)
    /\ UNCHANGED <<cq, rk, system, services>>

\* the caller drops the result
Return ==
    /\ call.op # "none"
    /\ call' = NoCall
    /\ ret' = <<>>
    /\ UNCHANGED <<cq, rk, system, services>>

\* registry entries as a hand-edited restaurant_index.json can hold them:
\* load_restaurant_index() takes whatever json.load() gives
EntryWithoutId ==
    [name |-> "Cheezious", file |-> "cheezious.json",
     keywords |-> <<"cheezious">>, food_categories |-> <<"pizza", "burger", "combo">>]

EntryWithoutName ==
    [id |-> "cheezious", file |-> "cheezious.json",
     keywords |-> <<"cheezious">>, food_categories |-> <<"pizza", "burger", "combo">>]

MalformedRegistries ==
    {<<KFC, EntryWithoutId, PizzaHut>>, <<EntryWithoutName, KFC>>, <<PizzaHut, KFC, EntryWithoutId>>}

\* restaurant["id"] and restaurant["name"] do not raise KeyError
HasRequiredFields(restaurant) == {"id", "name"} \subseteq DOMAIN restaurant

\* detect_restaurants_in_query as a call: both passes index every entry of the
\* registry with ["id"] and ["name"] before they look at the query, and nothing
\* catches the KeyError
DetectOutcome(index, query) ==
    IF \A i \in DOMAIN index : HasRequiredFields(index[i])
    THEN Returned(detect_restaurants_in_query(index, query))
    ELSE Raised

\* a caller asks which restaurants a query names, of a registry that may hold
\* malformed entries
DetectInRegistry ==
    /\ call.op = "none"
    /\ \E query \in DetectQueries :
          /\ call' = [op |-> "detect_restaurants_in_query", query |-> query]
          /\ ret' = DetectOutcome(restaurant_index, query)
    /\ UNCHANGED <<cq, rk, system, services>>

-----------------------------------------------------------------------------
(* The data the system is loaded with *)

\* restaurant_collection: the documents build_vector_db.py stores, with their metadata
Collection ==
    << [id |-> "kfc_0", document |-> "Zinger deal Rs. 550",
        metadata |-> [restaurant_id |-> "kfc", restaurant_name |-> "KFC",
                      type |-> "menu", chunk_index |-> 0]],
       [id |-> "kfc_1", document |-> "KFC combo with fries",
        metadata |-> [restaurant_id |-> "kfc", restaurant_name |-> "KFC",
                      type |-> "menu", chunk_index |-> 1]],
       [id |-> "pizza_hut_0", document |-> "Pan pizza Rs. , 1299",
        metadata |-> [restaurant_id |-> "pizza_hut", restaurant_name |-> "Pizza Hut",
                      type |-> "menu", chunk_index |-> 0]] >>

\* a collection of more documents than _hybrid_search ever returns
LargeCollection ==
    Collection \o
    << [id |-> "kfc_2", document |-> "Krunch burger Rs. 350",
        metadata |-> [restaurant_id |-> "kfc", restaurant_name |-> "KFC",
                      type |-> "menu", chunk_index |-> 2]],
       [id |-> "kfc_3", document |-> "Family bucket deal",
        metadata |-> [restaurant_id |-> "kfc", restaurant_name |-> "KFC",
                      type |-> "menu", chunk_index |-> 3]],
       [id |-> "pizza_hut_1", document |-> "Pasta deal Rs. 799",
        metadata |-> [restaurant_id |-> "pizza_hut", restaurant_name |-> "Pizza Hut",
                      type |-> "menu", chunk_index |-> 1]],
       [id |-> "kfc_4", document |-> "Hot wings Rs. 450",
        metadata |-> [restaurant_id |-> "kfc", restaurant_name |-> "KFC",
                      type |-> "menu", chunk_index |-> 4]] >>

\* restaurant_data: the JSON files that load_all_restaurant_data() found
\* (cheezious.json is missing); a menu is the list of its sections in file order
RestaurantData ==
    ("kfc" :>
        [brand    |-> [name |-> "KFC", description |-> "Fried chicken", founded |-> "1952"],
         branches |-> [cities |-> <<"Lahore", "Karachi">>, hours |-> "11am-1am"],
         menu     |-> << [name |-> "burgers", kind |-> "list",
                          items |-> << [name |-> "Zinger", price |-> "Rs. 550",
                                        description |-> "Crispy chicken burger"],
                                       [name |-> "Krunch"] >>],
                         [name |-> "deals", kind |-> "dict",
                          subsections |-> << [name |-> "family", kind |-> "list",
                                              items |-> << [name |-> "Family deal",
                                                            price |-> "Rs. 2100"] >>] >>] >>])
    @@
    ("pizza_hut" :>
        [brand    |-> [name |-> "Pizza Hut"],
         menu     |-> << [name |-> "pizzas", kind |-> "dict",
                          subsections |-> << [name |-> "pan", kind |-> "list",
                                              items |-> << [name |-> "Pan pizza",
                                                            price |-> "Rs. 1299"] >>] >>] >>])

-----------------------------------------------------------------------------
(* Calls of process_query *)

ProcessQueries ==
    {"hello", "menu", "KFC deals", "KFC pizza hut", "pizza hut prices", "any deal", "Kentucky",
     "KFC pizza", "where is KFC", "KFC sandwich rice drink"}

\* the outcome of the backend call that process_query leads to, if it leads to one
OutcomesFor(query) ==
    IF use_vector_db /\ Len(restaurant_collection) > Len(Collection)
    THEN PrefixOutcomes(
             HybridRequest(query,
                           CandidateIds(detect_restaurants_in_query(restaurant_index, query)), 20))
    ELSE IF use_vector_db /\ Len(restaurant_collection) > 0
    THEN BackendOutcomes(
             HybridRequest(query,
                           CandidateIds(detect_restaurants_in_query(restaurant_index, query)), 20))
    ELSE {[raises |-> FALSE, hits |-> <<>>]}

\* a caller runs a query through the whole pipeline; the call keeps the locals
\* of process_query and what search_vector_db gave back
ProcessQuery ==
    /\ call.op = "none"
    /\ \E query \in ProcessQueries :
          \E outcome \in OutcomesFor(query) :
          \E detected_restaurants \in {detect_restaurants_in_query(restaurant_index, query)} :
             LET restaurant_ids == CandidateIds(detected_restaurants)
             IN  /\ call' = [op               |-> "process_query",
                             query            |-> query,
                             outcome          |-> outcome,
                             restaurant_ids   |-> restaurant_ids,
                             focus_restaurant |-> FocusRestaurant(detected_restaurants),
                             retrieved_chunks |->
                                 IF use_vector_db
                                 THEN search_vector_db(query, restaurant_ids, 20, outcome)
                                 ELSE Returned(<<>>)]
                 /\ ret' = process_query(query, outcome)
    /\ UNCHANGED <<cq, rk, system, services>>

-----------------------------------------------------------------------------
(* Calls of build_comprehensive_context *)

\* chunks per restaurant in a direct call
MaxChunks == 3

\* 148 characters
RECURSIVE Repeat(_, _)
Repeat(text, n) == IF n = 0 THEN "" ELSE text \o Repeat(text, n - 1)

Pad == Repeat("Zinger Burger Rs. 550, ", 6) \o "Deal for 2"

ContextChunk(content, score) ==
    [restaurant_id |-> "kfc", restaurant_name |-> "KFC", content |-> content,
     metadata |-> [restaurant_id |-> "kfc"]] @@ score

\* chunks whose contents differ at, before and after character 150, in case
\* only or not at all; some were not reranked and carry no final_score
ContextChunks ==
    { ContextChunk(Pad \o "AB",      [similarity |-> One, final_score |-> One]),
      ContextChunk(Pad \o "ab more", [similarity |-> One, final_score |-> One \div 2]),
      ContextChunk(Pad \o "aC",      [similarity |-> One \div 2]),
      ContextChunk(Pad \o "aBc",     [similarity |-> 0, final_score |-> One]),
      ContextChunk("Krunch combo",   [similarity |-> One \div 2, final_score |-> One \div 2]) }

\* short chunks: four signatures, one of them twice in different case; one
\* chunk was not reranked
ShortChunks ==
    { ContextChunk("Zinger deal",   [similarity |-> One, final_score |-> One]),
      ContextChunk("zinger DEAL",   [similarity |-> One, final_score |-> One \div 2]),
      ContextChunk("Fries",         [similarity |-> One \div 2]),
      ContextChunk("Family bucket", [similarity |-> One, final_score |-> 0]),
      ContextChunk("Pan pizza",     [similarity |-> 0, final_score |-> One \div 2]) }

\* the lists of one more short chunk than MaxChunks
ShortChunkLists ==
    {chunks \in SeqsUpTo(ShortChunks, MaxChunks + 1) : Len(chunks) = MaxChunks + 1}

\* the results of a vector search for the chunks of one restaurant
ChunkResults(chunks) ==
    [query |-> "deals", restaurants_searched |-> <<"kfc">>, summary |-> "",
     retrieved_chunks |-> chunks,
     results |-> << [id |-> "kfc", name |-> "KFC",
                     data |-> [menu_items |-> <<>>, deals |-> <<>>, general_info |-> <<>>,
                               location_info |-> <<>>, chunks |-> chunks]] >>]

\* the results for two restaurants: of a vector search, and of a JSON search
TwoResults ==
    { [query |-> "deals", restaurants_searched |-> <<"kfc", "pizza_hut">>, summary |-> "",
       retrieved_chunks |-> <<>>,
       results |-> << [id |-> "kfc", name |-> "KFC",
                       data |-> [menu_items |-> <<>>, deals |-> <<>>, general_info |-> <<>>,
                                 location_info |-> <<>>,
                                 chunks |-> << ContextChunk("Krunch combo", [similarity |-> One]) >>]],
                      [id |-> "pizza_hut", name |-> "Pizza Hut",
                       data |-> [menu_items |-> <<>>, deals |-> <<>>, general_info |-> <<>>,
                                 location_info |-> <<>>,
                                 chunks |-> << [restaurant_id |-> "pizza_hut",
                                                restaurant_name |-> "Pizza Hut",
                                                content |-> "Pan pizza Rs. , 1299",
                                                metadata |-> [restaurant_id |-> "pizza_hut"],
                                                similarity |-> One] >>]] >>],
      [query |-> "deals", restaurants_searched |-> <<"pizza_hut", "kfc">>, summary |-> "",
       retrieved_chunks |-> <<>>,
       results |-> << [id |-> "pizza_hut", name |-> "Pizza Hut",
                       data |-> [menu_items |-> <<>>, deals |-> <<>>, pricing_info |-> <<>>,
                                 general_info |-> [name |-> "Pizza Hut", description |-> "",
                                                   founded |-> "", country |-> "", usp |-> <<>>],
                                 location_info |-> [cities |-> <<>>, hours |-> "",
                                                    total_branches |-> ""]]],
                      [id |-> "kfc", name |-> "KFC",
                       data |-> [menu_items |-> << [section |-> "burgers", relevance |-> 50,
                                                    item |-> [name |-> "Zinger",
                                                              price |-> "Rs. 550"]] >>,
                                 deals |-> << [category |-> "family",
                                               deal |-> [name |-> "Family deal",
                                                         price |-> "Rs. 2100"]] >>,
                                 pricing_info |-> <<>>,
                                 general_info |-> [name |-> "KFC", description |-> "Fried chicken",
                                                   founded |-> "1952", country |-> "", usp |-> <<>>],
                                 location_info |-> [cities |-> <<"Lahore", "Karachi">>,
                                                    hours |-> "11am-1am",
                                                    total_branches |-> ""]]] >>] }

\* focus_restaurant: None (""), a name or an id of a result in some case, or neither
Focuses == {"", "KFC", "Kfc", "kfc", "pizza hut", "PIZZA_HUT", "Cheezious", "kfc "}

ContextInputs ==
    {[search_results |-> ChunkResults(chunks), focus_restaurant |-> ""] :
        chunks \in SeqsUpTo(ContextChunks, MaxChunks) \cup ShortChunkLists}
    \cup {[search_results |-> results, focus_restaurant |-> focus] :
            results \in TwoResults, focus \in Focuses}

\* a caller assembles the context of search results; the return keeps the
\* chunks selected for each section beside the context
BuildContext ==
    /\ call.op = "none"
    /\ \E input \in ContextInputs :
          /\ call' = [op |-> "build_comprehensive_context"] @@ input
          /\ ret' = Once(ContextSections(input.search_results, input.focus_restaurant),
                         LAMBDA sections : [context  |-> ContextOf(sections),
                                            sections |-> sections])
    /\ UNCHANGED <<cq, rk, system, services>>

-----------------------------------------------------------------------------
(* Calls of _hybrid_search *)

\* the largest top_k of a direct call
MaxTopK == 8

SearchQueries == {"any deal", "KFC menu", "how much is a Zinger", "pizza"}

SearchIdLists ==
    {<<>>, <<"kfc">>, <<"kfc", "pizza_hut">>, <<"kfc", "cheezious">>,
     <<"kfc", "pizza_hut", "cheezious">>}

\* the backend's answers to a direct call: it raises, or gives its first
\* documents that pass the filter, as exact hits
SearchOutcomes(request) ==
    IF Len(restaurant_collection) > Len(Collection) THEN PrefixOutcomes(request)
    ELSE
    {outcome \in BackendOutcomes(request) :
        \A i \in DOMAIN outcome.hits :
            /\ outcome.hits[i].distance = 0
            /\ \A j \in 1..(i - 1) : outcome.hits[j].doc < outcome.hits[i].doc}

\* a caller searches the collection; the call keeps the locals search_k and
\* the request, and whether the backend was asked at all (line 254)
HybridSearch ==
    /\ call.op = "none"
    /\ \E query \in SearchQueries, restaurant_ids \in SearchIdLists, top_k \in 1..MaxTopK :
       \E request \in {HybridRequest(query, restaurant_ids, top_k)} :
       \E outcome \in IF use_vector_db /\ Len(restaurant_collection) > 0
                      THEN SearchOutcomes(request)
                      ELSE {[raises |-> FALSE, hits |-> <<>>]} :
          /\ call' = [op |-> "_hybrid_search", query |-> query,
                      restaurant_ids |-> restaurant_ids, top_k |-> top_k,
                      asked    |-> use_vector_db /\ Len(restaurant_collection) > 0,
                      search_k |-> search_k(query, restaurant_ids, top_k),
                      request  |-> request, outcome |-> outcome]
          /\ ret' = _hybrid_search(query, restaurant_ids, top_k, outcome)
    /\ UNCHANGED <<cq, rk, system, services>>

-----------------------------------------------------------------------------
(* Two concurrent calls of process_query on one MultiRestaurantRAGSystem *)

\* the callers (threads, or tasks of main.py's event loop) that share the system
Callers == {"a", "b"}

ConcurrentQueries == {"KFC deals", "menu", "KFC pizza"}

\* the backend's answers in the concurrent calls: it raises, finds nothing, or
\* gives one exact hit
ConcurrentOutcomes(request) ==
    {outcome \in BackendOutcomes(request) :
        /\ Len(outcome.hits) <= 1
        /\ \A i \in DOMAIN outcome.hits : outcome.hits[i].distance = 0}

\* A slip: a failed search switches the system to JSON mode, as the handler of
\* __init__ does (line 52).
ModeOffAfterFailure(outcome) == use_vector_db /\ ~outcome.raises

\* self.use_vector_db after search_comprehensive_info: the handlers of lines
\* 288-290, 354-356 and 377-379 print and return, and assign nothing
ModeAfterSearch(outcome) == use_vector_db

\* line 751: detected_restaurants = self.detect_restaurants_in_query(query)
StartProcessQuery(c) ==
    /\ call[c].op = "none"
    /\ \E query \in ConcurrentQueries :
          call' = [call EXCEPT ![c] =
                      [op |-> "process_query", pc |-> "detected", query |-> query,
                       detected_restaurants |->
                           detect_restaurants_in_query(restaurant_index, query)]]
    /\ UNCHANGED <<cq, rk, system, ret, services>>

\* lines 753-761: restaurant_ids, and search_results = self.search_comprehensive_info(...)
SearchStep(c) ==
    /\ call[c].op = "process_query"
    /\ call[c].pc = "detected"
    /\ \E restaurant_ids \in {CandidateIds(call[c].detected_restaurants)} :
       \E outcome \in IF use_vector_db /\ Len(restaurant_collection) > 0
                      THEN ConcurrentOutcomes(HybridRequest(call[c].query, restaurant_ids, 20))
                      ELSE {[raises |-> FALSE, hits |-> <<>>]} :
          /\ call' = [call EXCEPT ![c] =
                         [pc |-> "searched", outcome |-> outcome,
                          search_results |->
                              search_comprehensive_info(call[c].query, restaurant_ids, outcome)]
                         @@ call[c]]
          /\ use_vector_db' = ModeAfterSearch(outcome)
    /\ UNCHANGED <<cq, rk, restaurant_index, restaurant_data, restaurant_collection, ret, services>>

\* lines 763-779: focus_restaurant, and context = self.build_comprehensive_context(...)
ContextStep(c) ==
    /\ call[c].op = "process_query"
    /\ call[c].pc = "searched"
    /\ call' = [call EXCEPT ![c] =
                   [pc |-> "assembled",
                    context |->
                        IF call[c].search_results.raised THEN ""
                        ELSE build_comprehensive_context(
                                 call[c].search_results.value,
                                 FocusRestaurant(call[c].detected_restaurants))]
                   @@ call[c]]
    /\ UNCHANGED <<cq, rk, system, ret, services>>

\* lines 781-792: the suggestions, the query type and the return
ReturnStep(c) ==
    /\ call[c].op = "process_query"
    /\ call[c].pc = "assembled"
    /\ call' = [call EXCEPT ![c] = [pc |-> "done"] @@ call[c]]
    /\ ret' = [ret EXCEPT ![c] =
                  IF call[c].search_results.raised THEN Raised
                  ELSE Returned(
                         [detected_restaurants |-> call[c].detected_restaurants,
                          search_results       |-> call[c].search_results.value,
                          context              |-> call[c].context,
                          suggestions          |-> _generate_smart_suggestions(
                                                       call[c].query,
                                                       call[c].detected_restaurants),
                          query_type           |-> _classify_query_type(call[c].query)])]
    /\ UNCHANGED <<cq, rk, system, services>>

\* the caller drops the result
DropResult(c) ==
    /\ call[c].op = "process_query"
    /\ call[c].pc = "done"
    /\ call' = [call EXCEPT ![c] = NoCall]
    /\ ret' = [ret EXCEPT ![c] = <<>>]
    /\ UNCHANGED <<cq, rk, system, services>>

-----------------------------------------------------------------------------
(* Calls of _extract_json_prices on records of any size *)

\* the most items in a list section, deals in the deals section, and list
\* sections of a record
MaxItems == 6

MaxDeals == 6

MaxSections == 2

Numeral == <<"1", "2", "3", "4", "5", "6", "7", "8", "9">>

\* n priced items
PricedItems(kind, n) ==
    [i \in 1..n |-> [name |-> kind \o " " \o Numeral[i], price |-> "Rs. " \o Numeral[i] \o "00"]]

\* a restaurant JSON file with `sections` list sections of `items` items each
\* and `deals` deals
SizedRecord(sections, items, deals) ==
    [brand |-> [name |-> "KFC"],
     menu  |-> [s \in 1..sections |->
                   [name |-> "section " \o Numeral[s], kind |-> "list",
                    items |-> PricedItems("Item " \o Numeral[s], items)]]
               \o << [name |-> "deals", kind |-> "dict",
                      subsections |-> << [name |-> "family", kind |-> "list",
                                          items |-> PricedItems("Deal", deals)] >>] >>]

SizedRecords ==
    {SizedRecord(sections, items, deals) :
        sections \in 1..MaxSections, items \in 0..MaxItems, deals \in 0..MaxDeals}

PriceQueries == {"any deal", "KFC prices", "menu", "deal price"}

\* the supplement is asked for a restaurant's prices
ExtractPrices ==
    /\ call.op = "none"
    /\ \E restaurant_id \in {"kfc", "cheezious"}, query \in PriceQueries :
          /\ call' = [op |-> "_extract_json_prices", restaurant_id |-> restaurant_id,
                      query |-> query]
          /\ ret' = _extract_json_prices(restaurant_id, query)
    /\ UNCHANGED <<cq, rk, system, services>>

-----------------------------------------------------------------------------
(* GroqLLMService (services/llm_service.py) *)

DefaultModel == "llama-3.3-70b-versatile"

\* LLM_MODEL as the environment gives it
ConfiguredModels == {DefaultModel, "llama-3.1-70b-versatile", "custom-model"}

\* __init__: deprecated names are migrated to supported ones
MigratedModel(configured_model) ==
    IF configured_model \in {"llama-3.1-70b-versatile", "llama-3.1-70b"}
    THEN DefaultModel
    ELSE configured_model

\* the default TEMPERATURE, 0.8, in tenths
DefaultTemperature == 8

\* the temperature classify_query asks for, 0.1, in tenths
ClassifierTemperature == 1

\* the service main.py creates when the environment sets nothing but the API key
GroqLLMService ==
    [api_configured |-> TRUE, model |-> DefaultModel, temperature |-> DefaultTemperature]

\* the manager main.py creates
ConnectionManager == [active_connections |-> <<>>]

\* any(word in text for word in words)
AnyWordIn(words, text) == \E i \in DOMAIN words : StrIn(words[i], text)

_get_multi_restaurant_fallback(user_message, restaurant_names, context) ==
    LET user_lower == StrLower(user_message)
    IN  IF AnyWordIn(<<"deal", "offer", "combo", "special">>, user_lower)
        THEN "Great question! Both " \o restaurant_names \o " have excellent deals. "
             \o restaurant_names
             \o " offer various combo meals and special promotions. Would you like me to tell you about specific deals from each restaurant?"
        ELSE IF AnyWordIn(<<"price", "cost", "how much", "expensive">>, user_lower)
        THEN "Both " \o restaurant_names \o " have competitive pricing! " \o restaurant_names
             \o " offer great value for money with different price ranges. Would you like to compare specific items or see the most affordable options?"
        ELSE IF AnyWordIn(<<"location", "where", "branch", "delivery">>, user_lower)
        THEN "Both " \o restaurant_names
             \o " have multiple locations across Pakistan! They offer delivery through their apps, websites, and delivery partners. Would you like to know about specific cities or delivery options?"
        ELSE IF AnyWordIn(<<"menu", "what do you have", "options", "food">>, user_lower)
        THEN "Both " \o restaurant_names
             \o " have fantastic menus! They offer different specialties - would you like to know about specific items from each restaurant?"
        ELSE "Thanks for your message! I can help you with information about "
             \o restaurant_names
             \o ". What specific information would you like to know about these restaurants?"

_get_fallback_response(user_message, context) ==
    LET user_lower == StrLower(user_message)
        mentioned_restaurants ==
            (IF StrIn("pizza hut", user_lower) \/ StrIn("hut", user_lower)
             THEN <<"Pizza Hut">> ELSE <<>>)
            \o (IF StrIn("kfc", user_lower) \/ StrIn("kentucky", user_lower)
                THEN <<"KFC">> ELSE <<>>)
            \o (IF StrIn("cheezious", user_lower) \/ StrIn("cheezy", user_lower)
                THEN <<"Cheezious">> ELSE <<>>)
        restaurant_name ==
            IF Len(mentioned_restaurants) = 1 THEN mentioned_restaurants[1]
            ELSE "our restaurants"
    IN  IF Len(mentioned_restaurants) > 1
        THEN _get_multi_restaurant_fallback(user_message,
                                            Join(mentioned_restaurants, " and "), context)
        ELSE IF AnyWordIn(<<"hello", "hi", "hey", "how are you">>, user_lower)
        THEN "Hello! I'm your " \o restaurant_name
             \o " voice assistant. I'm here to help you with our delicious menu and ordering options. What would you like to know?"
        ELSE IF AnyWordIn(<<"menu", "what do you have", "options", "food">>, user_lower)
        THEN "We have a fantastic menu at " \o restaurant_name
             \o "! What type of food are you in the mood for?"
        ELSE IF AnyWordIn(<<"pizza", "pizzas">>, user_lower)
        THEN (IF restaurant_name = "Pizza Hut"
              THEN "Great choice! At Pizza Hut we have amazing pan pizzas, stuffed crust options, and classic favorites. Our Supreme pizza is very popular. Would you like to hear more about our pizza options?"
              ELSE IF restaurant_name = "Cheezious"
              THEN "Great choice! At Cheezious we have amazing pizzas including Local Love, Sooper, and Special varieties. Our Chicken Supreme is very popular at Rs. 690. Would you like to hear more about our pizza options?"
              ELSE "Great choice! We have amazing pizzas at " \o restaurant_name
                   \o ". Would you like to hear more about our pizza options?")
        ELSE IF AnyWordIn(<<"chicken", "fried chicken">>, user_lower)
        THEN (IF restaurant_name = "KFC"
              THEN "Perfect! At KFC we have the original fried chicken recipe with our secret blend of 11 herbs and spices. We offer pieces, strips, wings, and family buckets. What would you like to try?"
              ELSE "We have delicious chicken options at " \o restaurant_name
                   \o ". What would you like to know about our chicken dishes?")
        ELSE IF AnyWordIn(<<"price", "cost", "how much", "expensive">>, user_lower)
        THEN "Our prices at " \o restaurant_name
             \o " are very reasonable! What specific item are you interested in?"
        ELSE IF AnyWordIn(<<"location", "where", "branch", "delivery">>, user_lower)
        THEN "We have multiple branches of " \o restaurant_name
             \o " across Pakistan! We offer delivery through our app, website, and delivery partners. What city are you in?"
        ELSE IF AnyWordIn(<<"order", "buy", "get", "want", "like">>, user_lower)
        THEN "Perfect! I'd be happy to help you place an order at " \o restaurant_name
             \o ". What would you like to order? I can help you with our menu items and prices."
        ELSE IF AnyWordIn(<<"sad", "depressed", "unhappy", "bad day">>, user_lower)
        THEN "I'm sorry to hear you're feeling down! A delicious meal from " \o restaurant_name
             \o " might help cheer you up. We have comfort food that's sure to make you feel better. What sounds good to you?"
        ELSE "Thanks for your message! I'm here to help you with our " \o restaurant_name
             \o " menu, prices, locations, and ordering. What would you like to know about?"

IsEndPunctuation(c) == c \in {".", ",", "!", "?", ";", ":"}

\* re.sub(r'^[.,!?;:]+', '', s)
RECURSIVE LStripPunctuation(_)
LStripPunctuation(s) ==
    IF Len(s) > 0 /\ IsEndPunctuation(CharAt(s, 1))
    THEN LStripPunctuation(SubSeq(s, 2, Len(s)))
    ELSE s

\* re.sub(r'[.,!?;:]+$', '', s)
RECURSIVE RStripPunctuation(_)
RStripPunctuation(s) ==
    IF Len(s) > 0 /\ IsEndPunctuation(CharAt(s, Len(s)))
    THEN RStripPunctuation(SubSeq(s, 1, Len(s) - 1))
    ELSE s

\* the shortest answer _clean_response lets through
MinAnswerLength == 5

\* _clean_response on a one-line answer with no arrow, quote, special token,
\* instruction echo, page number or markdown: the whitespace is normalised,
\* the punctuation at both ends removed, and an answer left too short is
\* replaced
_clean_response(response) ==
    IF response = "" THEN response
    ELSE LET cleaned == RStripPunctuation(LStripPunctuation(Strip(CollapseSpaces(response))))
         IN  IF cleaned = "" \/ Len(Strip(cleaned)) < MinAnswerLength
             THEN "I understand your request. How can I help you with our menu today?"
             ELSE cleaned

\* the fallback models tried after self.model
FallbackModels == <<"llama-3.3-70b-versatile", "llama-3.1-8b-instant", "mixtral-8x7b-32768">>

CandidateModels(service) == <<service.model>> \o FallbackModels

\* message.content of the first choice of a 200 response
Contents == {"We have great deals.", "Hi!", ""}

\* What one POST to /chat/completions gives: requests.post or the handling of
\* its body throws, or there is a response with a status and, for a 200,
\* a body with or without choices.
Responses ==
    {[throws |-> TRUE, status |-> 0, choices |-> FALSE, content |-> ""]}
    \cup {[throws |-> FALSE, status |-> 200, choices |-> TRUE, content |-> c] : c \in Contents}
    \cup {[throws |-> FALSE, status |-> st, choices |-> FALSE, content |-> ""] :
            st \in {200, 400, 404, 401, 402, 500}}

\* A slip: a 401 or 402 is treated like any other error status.
DispositionNoBreak(response) ==
    IF response.throws THEN "raise"
    ELSE IF response.status = 200 THEN (IF response.choices THEN "return" ELSE "continue")
    ELSE "continue"

\* what the loop body does with the response of one model
Disposition(response) ==
    IF response.throws THEN "raise"
    ELSE IF response.status = 200 THEN (IF response.choices THEN "return" ELSE "continue")
    ELSE IF response.status \in {400, 404} THEN "continue"
    ELSE IF response.status \in {401, 402} THEN "break"
    ELSE "continue"

\* for model_name in candidate_models, from the i-th model on: how the loop
\* ends and how many calls were made
RECURSIVE TryModels(_, _, _)
TryModels(candidate_models, responses, i) ==
    IF i > Len(candidate_models) THEN [ends |-> "exhausted", calls |-> i - 1]
    ELSE IF Disposition(responses[i]) = "continue"
         THEN TryModels(candidate_models, responses, i + 1)
         ELSE [ends |-> Disposition(responses[i]), calls |-> i]

\* generate_response(user_message, context): the result, self.model after the
\* call and the number of backend calls made; responses[i] is what the i-th
\* backend call gives
generate_response(service, user_message, context, responses) ==
    IF ~service.api_configured
    THEN [result |-> Returned(_get_fallback_response(user_message, context)),
          model  |-> service.model, calls |-> 0]
    ELSE Once(TryModels(CandidateModels(service), responses, 1), LAMBDA tried :
         [result |-> Catch(IF tried.ends = "raise" THEN Raised
                           ELSE IF tried.ends = "return"
                           THEN Returned(_clean_response(Strip(responses[tried.calls].content)))
                           ELSE Returned(_get_fallback_response(user_message, context)),
                           _get_fallback_response(user_message, context)),
          model  |-> IF tried.ends = "return"
                     THEN CandidateModels(service)[tried.calls]
                     ELSE service.model,
          calls  |-> tried.calls])

LLMMessages == {"hello", "KFC and pizza hut deals"}

LLMContexts == {"", "KFC: Zinger deal Rs. 550"}

\* The responses of the backend calls generate_response makes from the i-th
\* model on: the backend is asked again only after a response that lets the
\* loop go on.
RECURSIVE ResponseRuns(_, _)
ResponseRuns(candidate_models, i) ==
    IF i > Len(candidate_models) THEN {<<>>}
    ELSE UNION {IF Disposition(r) = "continue"
                THEN {<<r>> \o rest : rest \in ResponseRuns(candidate_models, i + 1)}
                ELSE {<<r>>} : r \in Responses}

\* a caller asks the LLM for an answer; the call keeps the model it started
\* with and the responses of the backend calls it made
GenerateResponse ==
    /\ call.op = "none"
    /\ \E user_message \in LLMMessages, context \in LLMContexts :
       \E responses \in IF llm_service.api_configured
                        THEN ResponseRuns(CandidateModels(llm_service), 1)
                        ELSE {<<>>} :
       \E generated \in {generate_response(llm_service, user_message, context, responses)} :
          /\ call' = [op |-> "generate_response", user_message |-> user_message,
                      context |-> context, model_before |-> llm_service.model,
                      responses |-> Take(responses, generated.calls)]
          /\ ret' = generated.result
          /\ llm_service' = [llm_service EXCEPT !.model = generated.model]
    /\ UNCHANGED <<cq, rk, system, manager>>

-----------------------------------------------------------------------------
(* OrchestratorService (services/orchestrator_service.py) *)

\* what llm_service.generate_response(prompt) gives the classifier
ClassifierTexts ==
    {"GREETING", " order\n", "Complex", "COMPLEX (not an ORDER)",
     "Hello! I'm your our restaurants voice assistant. I'm here to help you with our delicious menu and ordering options. What would you like to know?"}

\* The call of the collaborator in classify_query, line 31: llm_service is the
\* object the constructor was given; its generate_response returns a text, or
\* raises, which is what the handler of lines 44-46 is for.
ClassifierOutcomes ==
    {[raised |-> FALSE, value |-> text] : text \in ClassifierTexts}
    \cup {[raised |-> TRUE, value |-> ""]}

\* llm_service.temperature when classify_query is left: line 34 restores it
\* after the call returned; the handler does not
TemperatureAfter(original_temp, outcome) ==
    IF outcome.raised THEN ClassifierTemperature ELSE original_temp

\* the category for the text the LLM answered
CategoryOf(text) ==
    LET response == StrUpper(Strip(text))
    IN  IF StrIn("GREETING", response) THEN "greeting"
        ELSE IF StrIn("ORDER", response) THEN "order"
        ELSE "complex"

classify_query(query, outcome) ==
    Catch(IF outcome.raised THEN Raised ELSE Returned(CategoryOf(outcome.value)), "complex")

\* main.py classifies a message; the call keeps the local original_temp
ClassifyQuery ==
    /\ call.op = "none"
    /\ \E query \in ProcessQueries, outcome \in ClassifierOutcomes :
          /\ call' = [op |-> "classify_query", query |-> query,
                      original_temp |-> llm_service.temperature, outcome |-> outcome]
          /\ ret' = classify_query(query, outcome)
          /\ llm_service' =
                [llm_service EXCEPT
                    !.temperature = TemperatureAfter(llm_service.temperature, outcome)]
    /\ UNCHANGED <<cq, rk, system, manager>>

-----------------------------------------------------------------------------
(* main.py: ConnectionManager and the /ws/voice endpoint *)

\* the websockets that clients open, one handler each
Sockets == {"ws1", "ws2", "ws3"}

\* list.remove(x): the first occurrence is removed
ListRemove(list, x) ==
    LET first == CHOOSE i \in DOMAIN list : list[i] = x /\ \A j \in 1..(i - 1) : list[j] # x
    IN  SubSeq(list, 1, first - 1) \o SubSeq(list, first + 1, Len(list))

\* ConnectionManager.connect, after websocket.accept()
connect(connections, websocket) ==
    [connections EXCEPT !.active_connections = Append(@, websocket)]

\* ConnectionManager.disconnect
disconnect(connections, websocket) ==
    [connections EXCEPT !.active_connections = ListRemove(@, websocket)]

\* A text a client sends: what json.loads makes of it, its "type" when it is an
\* object, and whether classifying and answering a chat message raises
ClientMessages ==
    {[json |-> "invalid", type |-> "",     raises |-> FALSE],
     [json |-> "array",   type |-> "",     raises |-> FALSE],
     [json |-> "object",  type |-> "ping", raises |-> FALSE],
     [json |-> "object",  type |-> "chat", raises |-> FALSE],
     [json |-> "object",  type |-> "chat", raises |-> TRUE]}

\* the body of the loop raises an Exception other than WebSocketDisconnect:
\* json.loads on a text that is not JSON, .get on a value that is not an
\* object, or an error while the chat message is answered
BodyRaises(message) ==
    \/ message.json = "invalid"
    \/ message.json = "array"
    \/ message.type = "chat" /\ message.raises

\* what answering a chat message may leave in the LLM service: the model that
\* answered, and the temperature classify_query left
ServiceAfterChat(service) ==
    {[service EXCEPT !.model = model, !.temperature = temperature] :
        model \in {service.model} \cup Range(FallbackModels),
        temperature \in {service.temperature, ClassifierTemperature}}

IdleHandlers == [websocket \in Sockets |-> [pc |-> "waiting", last |-> "", ended_by |-> ""]]

\* websocket_endpoint, line 317: the connection is accepted and registered
Connect(websocket) ==
    /\ call[websocket].pc = "waiting"
    /\ manager' = connect(manager, websocket)
    /\ call' = [call EXCEPT ![websocket].pc = "receiving"]
    /\ UNCHANGED <<cq, rk, system, llm_service, ret>>

\* one turn of the loop: a text arrives and is handled; when the body raises,
\* the handler of lines 411-418 sends the error and the endpoint returns
ReceiveText(websocket) ==
    /\ call[websocket].pc = "receiving"
    /\ \E message \in ClientMessages :
          /\ call' = [call EXCEPT ![websocket] =
                         IF BodyRaises(message)
                         THEN [pc |-> "returned", last |-> message.json, ended_by |-> "exception"]
                         ELSE [pc |-> "receiving", last |-> message.type, ended_by |-> ""]]
          /\ IF message.type = "chat"
             THEN llm_service' \in ServiceAfterChat(llm_service)
             ELSE UNCHANGED llm_service
    /\ UNCHANGED <<cq, rk, system, manager, ret>>

\* the client goes away: receive_text raises WebSocketDisconnect and the
\* handler of lines 409-410 unregisters the connection
ClientDisconnects(websocket) ==
    /\ call[websocket].pc = "receiving"
    /\ manager' = disconnect(manager, websocket)
    /\ call' = [call EXCEPT ![websocket] =
                   [pc |-> "returned", last |-> @.last, ended_by |-> "disconnect"]]
    /\ UNCHANGED <<cq, rk, system, llm_service, ret>>

-----------------------------------------------------------------------------
(* Specifications *)

IdleSystem ==
    /\ restaurant_index = <<>>
    /\ restaurant_data = <<>>
    /\ use_vector_db = FALSE
    /\ restaurant_collection = <<>>
    /\ call = NoCall
    /\ ret = <<>>

\* the caller drops the strings it got
CleanDone ==
    /\ cq.n = 2
    /\ cq' = NoCleanCall
    /\ UNCHANGED <<rk, system, call, ret, services>>

InitClean ==
    /\ cq = NoCleanCall
    /\ rk = NoRerankCall
    /\ llm_service = GroqLLMService
    /\ manager = ConnectionManager
    /\ IdleSystem

NextClean ==
    \/ CleanQuery
    \/ CleanAgain
    \/ CleanDone

SpecClean == InitClean /\ [][NextClean]_vars

InitRerank ==
    /\ cq = NoCleanCall
    /\ rk = NoRerankCall
    /\ llm_service = GroqLLMService
    /\ manager = ConnectionManager
    /\ IdleSystem

NextRerank ==
    \/ Rerank
    \/ HybridRerank
    \/ RerankDone

SpecRerank == InitRerank /\ [][NextRerank]_vars

InitDetect ==
    /\ cq = NoCleanCall
    /\ rk = NoRerankCall
    /\ llm_service = GroqLLMService
    /\ manager = ConnectionManager
    /\ restaurant_index \in Registries
    /\ restaurant_data = <<>>
    /\ use_vector_db = FALSE
    /\ restaurant_collection = <<>>
    /\ call = NoCall
    /\ ret = <<>>

NextDetect ==
    \/ Detect
    \/ Return

SpecDetect == InitDetect /\ [][NextDetect]_vars

\* the system after load_restaurant_index() read a registry, well-formed or not
InitRegistry ==
    /\ cq = NoCleanCall
    /\ rk = NoRerankCall
    /\ llm_service = GroqLLMService
    /\ manager = ConnectionManager
    /\ restaurant_index \in Registries \cup MalformedRegistries
    /\ restaurant_data = <<>>
    /\ use_vector_db = FALSE
    /\ restaurant_collection = <<>>
    /\ call = NoCall
    /\ ret = <<>>

NextRegistry ==
    \/ DetectInRegistry
    \/ Return

SpecRegistry == InitRegistry /\ [][NextRegistry]_vars

\* the system after __init__: the vector DB loaded, or the JSON fallback
InitLoaded ==
    /\ cq = NoCleanCall
    /\ rk = NoRerankCall
    /\ llm_service = GroqLLMService
    /\ manager = ConnectionManager
    /\ restaurant_index \in Registries
    /\ restaurant_data = RestaurantData
    /\ use_vector_db \in BOOLEAN
    /\ restaurant_collection = IF use_vector_db THEN Collection ELSE <<>>
    /\ call = NoCall
    /\ ret = <<>>

NextContext ==
    \/ BuildContext
    \/ Return

SpecContext == InitLoaded /\ [][NextContext]_vars

NextSearch ==
    \/ HybridSearch
    \/ Return

SpecSearch == InitLoaded /\ [][NextSearch]_vars

\* the system loaded with the larger collection
InitLarge ==
    /\ cq = NoCleanCall
    /\ rk = NoRerankCall
    /\ llm_service = GroqLLMService
    /\ manager = ConnectionManager
    /\ restaurant_index \in Registries
    /\ restaurant_data = RestaurantData
    /\ use_vector_db = TRUE
    /\ restaurant_collection = LargeCollection
    /\ call = NoCall
    /\ ret = <<>>

NextLarge ==
    \/ HybridSearch
    \/ ProcessQuery
    \/ Return

SpecLarge == InitLarge /\ [][NextLarge]_vars

\* the loaded system, shared by two callers
InitConcurrent ==
    /\ cq = NoCleanCall
    /\ rk = NoRerankCall
    /\ llm_service = GroqLLMService
    /\ manager = ConnectionManager
    /\ restaurant_index \in Registries
    /\ restaurant_data = RestaurantData
    /\ use_vector_db \in BOOLEAN
    /\ restaurant_collection = IF use_vector_db THEN Collection ELSE <<>>
    /\ call = [c \in Callers |-> NoCall]
    /\ ret = [c \in Callers |-> <<>>]

NextConcurrent ==
    \E c \in Callers :
        \/ StartProcessQuery(c)
        \/ SearchStep(c)
        \/ ContextStep(c)
        \/ ReturnStep(c)
        \/ DropResult(c)

SpecConcurrent == InitConcurrent /\ [][NextConcurrent]_vars

\* a system in JSON mode whose kfc.json is a record of some size
InitPrices ==
    /\ cq = NoCleanCall
    /\ rk = NoRerankCall
    /\ llm_service = GroqLLMService
    /\ manager = ConnectionManager
    /\ restaurant_index = <<KFC, Cheezious>>
    /\ \E record \in SizedRecords : restaurant_data = ("kfc" :> record)
    /\ use_vector_db = FALSE
    /\ restaurant_collection = <<>>
    /\ call = NoCall
    /\ ret = <<>>

NextPrices ==
    \/ ExtractPrices
    \/ Return

SpecPrices == InitPrices /\ [][NextPrices]_vars

Next ==
    \/ ProcessQuery
    \/ Return

Spec == InitLoaded /\ [][Next]_vars

\* the services after startup, with the model and the key the environment gives
InitLLM ==
    /\ cq = NoCleanCall
    /\ rk = NoRerankCall
    /\ \E configured_model \in ConfiguredModels, api_configured \in BOOLEAN :
          llm_service = [api_configured |-> api_configured,
                         model          |-> MigratedModel(configured_model),
                         temperature    |-> DefaultTemperature]
    /\ manager = ConnectionManager
    /\ IdleSystem

NextLLM ==
    \/ GenerateResponse
    \/ Return

SpecLLM == InitLLM /\ [][NextLLM]_vars

\* the server after startup, before any client connected
InitVoice ==
    /\ cq = NoCleanCall
    /\ rk = NoRerankCall
    /\ llm_service = GroqLLMService
    /\ manager = ConnectionManager
    /\ restaurant_index = <<>>
    /\ restaurant_data = <<>>
    /\ use_vector_db = FALSE
    /\ restaurant_collection = <<>>
    /\ call = IdleHandlers
    /\ ret = <<>>

NextVoice ==
    \E websocket \in Sockets :
        \/ Connect(websocket)
        \/ ReceiveText(websocket)
        \/ ClientDisconnects(websocket)

SpecVoice == InitVoice /\ [][NextVoice]_vars

NextClassify ==
    \/ ClassifyQuery
    \/ Return

SpecClassify == InitLLM /\ [][NextClassify]_vars

-----------------------------------------------------------------------------
(* Claims *)

\* C6: query cleaning is idempotent: cleaning the string clean_query returned
\* gives that string again, also when filler removal left fewer than 2 words
\* and when the query held only filler words.
C6_CleanIdempotent == cq.n = 2 => cq.ret = cq.arg

\* C6, witness: a second cleaning of a query whose filler removal left one
\* word, so that the fallback branch ran: it dropped a greeting and kept "thanks".
C6_Witness ==
    LET words == Split(CollapseSpaces(Strip(StrLower(cq.orig))))
    IN  /\ cq.n = 2
        /\ Len(Without(words, FILLER_WORDS)) = 1
        /\ KeepStructure(words) # words
        /\ KeepStructure(words) # Without(words, FILLER_WORDS)

\* C6, witness of the all-filler case: the second cleaning of "hi please"-like input
C6_WitnessAllFiller ==
    /\ cq.n = 2
    /\ cq.orig # ""
    /\ Len(KeepStructure(Split(CollapseSpaces(Strip(StrLower(cq.orig)))))) = 0
    /\ Len(Split(cq.orig)) > 1

\* C4: for passages whose similarity lies in [0,1], every rerank_score that
\* rerank() assigns and every final_score = 0.4 x similarity + 0.6 x
\* rerank_score that the hybrid search assigns lies in [0,1].
C4_ScoresInUnitInterval ==
    rk.op \in {"rerank", "final"} =>
        \A i \in DOMAIN rk.ret :
            /\ 0 <= rk.ret[i]["rerank_score"] /\ rk.ret[i]["rerank_score"] <= One
            /\ rk.op = "final" =>
                  /\ 0 <= rk.ret[i]["final_score"] /\ rk.ret[i]["final_score"] <= One
                  /\ 10 * rk.ret[i]["final_score"]
                        = 4 * rk.ret[i]["similarity"] + 6 * rk.ret[i]["rerank_score"]

\* C4, witness: the hybrid search scored a passage of similarity 1.0 whose
\* price and deal parts together exceed 1.0, so that the sub-score cap is what
\* keeps the scores in range; every term matched, and the scores are high.
C4_Witness ==
    /\ rk.op = "final"
    /\ \E i \in DOMAIN rk.ret :
          /\ rk.ret[i]["similarity"] = One
          /\ PriceTypeScore(StrLower(rk.ret[i]["content"]), StrLower(rk.query))
                + DealTypeScore(StrLower(rk.ret[i]["content"]), StrLower(rk.query)) > One
          /\ rk.ret[i]["rerank_score"] > Weighted(One, 9)
          /\ rk.ret[i]["final_score"] > Weighted(One, 9)

\* a passage text holds a deal keyword and a price pattern
IsPricedDeal(content) ==
    /\ AnyIn(deal_keywords, StrLower(content))
    /\ HasRsDigits(StrLower(content))

\* a passage text holds the word "combo" and nothing else
IsOnlyCombo(content) == Split(StrLower(content)) = <<"combo">>

\* C7: under a query with deal vocabulary, the query-type sub-score of a
\* passage holding a deal keyword and a price pattern is strictly greater than
\* that of a passage holding only the word "combo" and no price.
C7_PricedDealOutscoresCombo ==
    (rk.op = "rerank" /\ AnyIn(deal_keywords, StrLower(rk.query))) =>
        \A i, j \in DOMAIN rk.chunks :
            (IsPricedDeal(rk.chunks[i].content) /\ IsOnlyCombo(rk.chunks[j].content))
                => rk.query_type_score[i] > rk.query_type_score[j]

\* C7, witness: a deal query scored "Family Deal Rs. 1,249 combo" and "combo"
\* in one call.
C7_Witness ==
    /\ rk.op = "rerank"
    /\ AnyIn(deal_keywords, StrLower(rk.query))
    /\ \E i, j \in DOMAIN rk.chunks :
          /\ IsPricedDeal(rk.chunks[i].content)
          /\ IsOnlyCombo(rk.chunks[j].content)
          /\ rk.query_type_score[i] = One
          /\ rk.query_type_score[j] = Weighted(One, 5)

\* the registry entry with this id
Restaurant(id) == restaurant_index[CHOOSE i \in DOMAIN restaurant_index : restaurant_index[i].id = id]

\* the number of alias keywords of a registry entry that occur in the query,
\* case-insensitively
AliasesIn(restaurant, query) ==
    Cardinality({k \in DOMAIN restaurant.keywords :
                    StrIn(StrLower(restaurant.keywords[k]), StrLower(query))})

\* the number of declared categories of a registry entry that the query mentions
CategoriesIn(restaurant, query) ==
    Cardinality({c \in Range(restaurant.food_categories) :
                    \E t \in DOMAIN food_categories :
                        /\ food_categories[t].category = c
                        /\ \E k \in DOMAIN food_categories[t].keywords :
                              StrIn(food_categories[t].keywords[k], StrLower(query))})

\* C1: detect_restaurants_in_query returns its detections in non-increasing
\* order of confidence, and every confidence is >= 0.
C1_DetectSortedNonNegative ==
    call.op = "detect_restaurants_in_query" =>
        /\ \A i \in DOMAIN ret : ret[i].confidence >= 0
        /\ \A i, j \in DOMAIN ret : i < j => ret[i].confidence >= ret[j].confidence

\* C1, witness: three detections of which a later registry entry has the
\* highest confidence, so that the sort moved it to the front.
C1_Witness ==
    /\ call.op = "detect_restaurants_in_query"
    /\ Len(ret) = 3
    /\ ret[1].confidence > ret[2].confidence
    /\ ret[2].confidence > ret[3].confidence
    /\ \E i, j \in DOMAIN restaurant_index :
          i < j /\ restaurant_index[j].id = ret[1].id /\ restaurant_index[i].id = ret[3].id

\* C2: a restaurant with at least one alias in the query and at least one
\* declared category mentioned by it has exactly one entry, of type
\* explicit_and_category, with confidence 2.0 x aliases + 1.0 x categories
\* (so >= 3.0); no entry has zero confidence.
C2_ExplicitAndCategory ==
    call.op = "detect_restaurants_in_query" =>
        /\ \A r \in DOMAIN restaurant_index :
              LET restaurant == restaurant_index[r]
                  aliases    == AliasesIn(restaurant, call.query)
                  categories == CategoriesIn(restaurant, call.query)
                  entries    == {i \in DOMAIN ret : ret[i].id = restaurant.id}
              IN  (aliases >= 1 /\ categories >= 1) =>
                      /\ Cardinality(entries) = 1
                      /\ \A i \in entries :
                            /\ ret[i].detection_type = "explicit_and_category"
                            /\ ret[i].confidence = 2 * aliases + categories
                            /\ ret[i].confidence >= 3
        /\ \A i \in DOMAIN ret : ret[i].confidence > 0

\* C2, witness: a query naming a restaurant by two aliases and mentioning two
\* of its categories: confidence 6.0.
C2_Witness ==
    /\ call.op = "detect_restaurants_in_query"
    /\ \E i \in DOMAIN ret :
          /\ ret[i].detection_type = "explicit_and_category"
          /\ AliasesIn(Restaurant(ret[i].id), call.query) = 2
          /\ CategoriesIn(Restaurant(ret[i].id), call.query) = 2
          /\ ret[i].confidence = 6

\* some alias of the registry or some keyword of the category table occurs in
\* the query, case-insensitively
NamesSomething(query) ==
    \/ \E r \in DOMAIN restaurant_index : AliasesIn(restaurant_index[r], query) > 0
    \/ \E t \in DOMAIN food_categories :
          \E k \in DOMAIN food_categories[t].keywords :
              StrIn(food_categories[t].keywords[k], StrLower(query))

\* C3: when no registry alias and no category keyword occurs in the query,
\* nothing is detected, process_query searches the ids of the whole registry
\* in registry order, and it returns normally.
C3_NoDetectionSearchesAll ==
    (call.op = "process_query" /\ ~NamesSomething(call.query)) =>
        /\ ~ret.raised
        /\ ret.value.detected_restaurants = <<>>
        /\ call.restaurant_ids = [i \in DOMAIN restaurant_index |-> restaurant_index[i].id]
        /\ ret.value.search_results.restaurants_searched = call.restaurant_ids

\* C3, witness: "hello" went through the vector search of a registry of three
\* restaurants, the backend returned hits, and the context has sections.
C3_Witness ==
    /\ call.op = "process_query"
    /\ ~NamesSomething(call.query)
    /\ call.query # ""
    /\ use_vector_db
    /\ Len(call.outcome.hits) > 0
    /\ Len(call.restaurant_ids) = 3
    /\ ~ret.raised
    /\ ret.value.detected_restaurants = <<>>
    /\ StrIn("=== ", ret.value.context)

\* C5: in the assembled context no two passages selected for one restaurant
\* have the same first 150 characters, compared in lower case (nor, then, the
\* same first 150 characters as written), whatever the order and the scores
\* of the passages given.
C5_DistinctPrefixes ==
    call.op = "build_comprehensive_context" =>
        \A s \in DOMAIN ret.sections :
            \A i, j \in DOMAIN ret.sections[s].selected :
                i < j =>
                    /\ StrLower(Prefix(ret.sections[s].selected[i].content, SignatureLength))
                          # StrLower(Prefix(ret.sections[s].selected[j].content, SignatureLength))
                    /\ Prefix(ret.sections[s].selected[i].content, SignatureLength)
                          # Prefix(ret.sections[s].selected[j].content, SignatureLength)

\* C5, witness: three passages were given, two of them alike in their first
\* 150 characters but for the case and different after them; two were selected.
C5_Witness ==
    /\ call.op = "build_comprehensive_context"
    /\ use_vector_db
    /\ Len(call.search_results.results) = 1
    /\ LET chunks == call.search_results.results[1].data.chunks
       IN  /\ Len(chunks) = 3
           /\ \E i, j \in DOMAIN chunks :
                 /\ i < j
                 /\ chunks[i].content # chunks[j].content
                 /\ Prefix(chunks[i].content, SignatureLength)
                       # Prefix(chunks[j].content, SignatureLength)
                 /\ StrLower(Prefix(chunks[i].content, SignatureLength))
                       = StrLower(Prefix(chunks[j].content, SignatureLength))
    /\ Len(ret.sections) = 1
    /\ Len(ret.sections[1].selected) = 2
    /\ \A i \in 1..2 : Len(ret.sections[1].selected[i].content) >= SignatureLength

\* the focus names this result by its id or its name, case-insensitively
Names(focus_restaurant, result) ==
    \/ StrLower(focus_restaurant) = StrLower(result.id)
    \/ StrLower(focus_restaurant) = StrLower(result.name)

\* the context has the section of this result
HasSection(context, result) == StrIn("=== " \o StrUpper(result.name) \o " ===", context)

\* C8: for the results of two restaurants A and B, a focus equal to A's name
\* or id in any case gives a context with A's section and none for B; a focus
\* that is the name or id of neither gives the sections of both.
C8_FocusFilters ==
    (call.op = "build_comprehensive_context" /\ Len(call.search_results.results) = 2
        /\ call.focus_restaurant # "") =>
        \A a, b \in DOMAIN call.search_results.results :
            LET A == call.search_results.results[a]
                B == call.search_results.results[b]
            IN  a # b =>
                   /\ (Names(call.focus_restaurant, A) /\ ~Names(call.focus_restaurant, B))
                         => (HasSection(ret.context, A) /\ ~HasSection(ret.context, B))
                   /\ (~Names(call.focus_restaurant, A) /\ ~Names(call.focus_restaurant, B))
                         => (HasSection(ret.context, A) /\ HasSection(ret.context, B))

\* C8, witness: the focus is the name of the second of two results, in another
\* case than the name has in the results, and only its section is in the context.
C8_Witness ==
    /\ call.op = "build_comprehensive_context"
    /\ Len(call.search_results.results) = 2
    /\ call.focus_restaurant # ""
    /\ call.focus_restaurant # call.search_results.results[2].name
    /\ call.focus_restaurant # call.search_results.results[2].id
    /\ StrLower(call.focus_restaurant) = StrLower(call.search_results.results[2].name)
    /\ HasSection(ret.context, call.search_results.results[2])
    /\ ~HasSection(ret.context, call.search_results.results[1])

\* C8, witness of the other half: a focus that names neither result, and both
\* sections in the context.
C8_WitnessNoMatch ==
    /\ call.op = "build_comprehensive_context"
    /\ Len(call.search_results.results) = 2
    /\ call.focus_restaurant # ""
    /\ \A i \in 1..2 : ~Names(call.focus_restaurant, call.search_results.results[i])
    /\ \A i \in 1..2 : HasSection(ret.context, call.search_results.results[i])

\* C9: when the backend's query call raises, search_vector_db returns the
\* empty list and process_query returns its result; no exception leaves it.
C9_BackendFailureContained ==
    (call.op = "process_query" /\ use_vector_db /\ call.outcome.raises) =>
        /\ call.retrieved_chunks = Returned(<<>>)
        /\ ~ret.raised
        /\ ret.value.search_results.retrieved_chunks = <<>>

\* C9, witness: the backend raised under a query that names a restaurant, and
\* process_query returned a context with that restaurant's empty section.
C9_Witness ==
    /\ call.op = "process_query"
    /\ use_vector_db
    /\ call.outcome.raises
    /\ ~ret.raised
    /\ Len(ret.value.detected_restaurants) > 0
    /\ call.retrieved_chunks.value = <<>>
    /\ \E i \in DOMAIN ret.value.search_results.results :
          /\ ret.value.search_results.results[i].data.chunks = <<>>
          /\ HasSection(ret.value.context, ret.value.search_results.results[i])

\* the detections of a query that name a restaurant explicitly
ExplicitlyNamed(detected_restaurants) ==
    {i \in DOMAIN detected_restaurants :
        detected_restaurants[i].detection_type \in {"explicit", "explicit_and_category"}}

\* C10: when a query names more than one restaurant explicitly, no focus
\* restaurant is applied and the context keeps the sections of all the
\* restaurants named explicitly (of those that have search results).
C10_SeveralExplicitNoFocus ==
    (call.op = "process_query" /\ ~ret.raised
        /\ Cardinality(ExplicitlyNamed(ret.value.detected_restaurants)) > 1) =>
        /\ call.focus_restaurant = ""
        /\ \A i \in ExplicitlyNamed(ret.value.detected_restaurants) :
              \A r \in DOMAIN ret.value.search_results.results :
                  ret.value.search_results.results[r].id = ret.value.detected_restaurants[i].id
                      => HasSection(ret.value.context, ret.value.search_results.results[r])

\* every line of the context is blank or the header of a section
OnlyEmptySections(context) ==
    \A i \in 1..Len(context) :
        (i = 1 \/ CharAt(context, i - 1) = "\n") =>
            (CharAt(context, i) = "\n" \/ Slice(context, i, i + 3) = "=== ")

\* C11: when the vector index is enabled and the similarity search gave no
\* passage (the backend raised or had no hit), process_query returns and the
\* context carries data of the fallback records of the candidates that have
\* one; it does not consist of sections without data.
C11_EmptySearchUsesFallback ==
    (call.op = "process_query" /\ use_vector_db /\ call.retrieved_chunks.value = <<>>
        /\ \E i \in DOMAIN call.restaurant_ids :
              call.restaurant_ids[i] \in DOMAIN restaurant_data) =>
        /\ ~ret.raised
        /\ ~OnlyEmptySections(ret.value.context)

\* the passages retrieved for a result of a vector search
PassagesOf(result) == Get(result.data, "chunks", <<>>)

\* C12: when the focus restaurant has no passage in the search results while
\* another searched restaurant has one, the focus filter is ignored: the
\* context has the section and a passage of every other restaurant with
\* passages, and is never made of empty sections only.
C12_FocusWithoutPassagesIgnored ==
    LET results == ret.value.search_results.results
    IN  (call.op = "process_query" /\ ~ret.raised /\ use_vector_db
            /\ call.focus_restaurant # ""
            /\ \E f \in DOMAIN results :
                  Names(call.focus_restaurant, results[f]) /\ PassagesOf(results[f]) = <<>>
            /\ \E o \in DOMAIN results : PassagesOf(results[o]) # <<>>) =>
            /\ ~OnlyEmptySections(ret.value.context)
            /\ \A o \in DOMAIN results :
                  PassagesOf(results[o]) # <<>> =>
                      /\ HasSection(ret.value.context, results[o])
                      /\ \E c \in DOMAIN PassagesOf(results[o]) :
                            StrIn(FixPrices(PassagesOf(results[o])[c].content),
                                  ret.value.context)

\* the entries of the registry that have an id and a name
WellFormedEntries(index) == SelectSeq(index, HasRequiredFields)

\* C13: detection skips a registry entry without id or name: it does not
\* raise, and returns the detections of the well-formed entries.
C13_MalformedEntrySkipped ==
    (call.op = "detect_restaurants_in_query"
        /\ \E i \in DOMAIN restaurant_index : ~HasRequiredFields(restaurant_index[i])) =>
        /\ ~ret.raised
        /\ ret.value = detect_restaurants_in_query(WellFormedEntries(restaurant_index),
                                                   call.query)

\* the focus filter of this call left some result, and this restaurant is not
\* the one it names
ExcludedByFocus(rid) ==
    /\ call.focus_restaurant # ""
    /\ \E r \in DOMAIN ret.value.search_results.results :
          Names(call.focus_restaurant, ret.value.search_results.results[r])
    /\ ~Names(call.focus_restaurant, [id |-> rid, name |-> RegistryName(rid)])

\* C14: in vector mode and in JSON mode, every restaurant that was searched and
\* that the focus filter did not exclude has its header in the context, also
\* when nothing was found for it; a restaurant that was not searched has none.
C14_EverySearchedRestaurantHasHeader ==
    (call.op = "process_query" /\ ~ret.raised) =>
        \A i \in DOMAIN restaurant_index :
            LET rid    == restaurant_index[i].id
                header == SectionHeader(RegistryName(rid))
            IN  IF rid \in Range(call.restaurant_ids)
                THEN ~ExcludedByFocus(rid) => StrIn(header, ret.value.context)
                ELSE ~StrIn(header, ret.value.context)

\* what the suggestions of a call depend on: the query type and whether more
\* than one restaurant was detected
SuggestionKey(query, detected_restaurants) ==
    <<_classify_query_type(query), Len(detected_restaurants) > 1>>

\* C15: process_query returns at most 3 suggestions; when more than one
\* restaurant was detected the first two are the comparison pair; and any other
\* query with the same query type and the same answer to "more than one
\* restaurant detected?" gets the same list.
C15_SuggestionsTable ==
    (call.op = "process_query" /\ ~ret.raised) =>
        LET suggestions == ret.value.suggestions
            detected    == ret.value.detected_restaurants
        IN  /\ Len(suggestions) <= 3
            /\ Len(detected) > 1 =>
                  /\ Len(suggestions) >= 2
                  /\ suggestions[1] = "Would you like to compare prices between these restaurants?"
                  /\ suggestions[2] = "Which restaurant would you like to know more about?"
            /\ \A other \in ProcessQueries :
                  LET others == detect_restaurants_in_query(restaurant_index, other)
                  IN  SuggestionKey(other, others) = SuggestionKey(call.query, detected)
                         => _generate_smart_suggestions(other, others) = suggestions

\* C15, witness: a deals query with two detected restaurants got the comparison
\* pair and one deals suggestion, and another query has the same key.
C15_Witness ==
    /\ call.op = "process_query"
    /\ ~ret.raised
    /\ ret.value.query_type = "deals"
    /\ Len(ret.value.detected_restaurants) > 1
    /\ Len(ret.value.suggestions) = 3
    /\ ret.value.suggestions[3] = "Would you like to see more deals and offers?"
    /\ \E other \in ProcessQueries \ {call.query} :
          SuggestionKey(other, detect_restaurants_in_query(restaurant_index, other))
              = SuggestionKey(call.query, ret.value.detected_restaurants)

\* C16: process_query writes no shared state (the registry, the fallback
\* records, the mode flag and the collection never change), and under every
\* interleaving of two concurrent calls each call returns what process_query
\* returns for its query and backend answer when it runs alone.
C16_CallsIndependent ==
    /\ [][restaurant_index' = restaurant_index /\ restaurant_data' = restaurant_data
            /\ use_vector_db' = use_vector_db
            /\ restaurant_collection' = restaurant_collection]_vars
    /\ [](\A c \in Callers :
             (call[c].op = "process_query" /\ call[c].pc = "done") =>
                 ret[c] = process_query(call[c].query, call[c].outcome))

\* C16, witness: a call returned its result although the other caller's call,
\* of another query, began before it ended and has only searched so far, with a
\* failed backend call.
C16_Witness ==
    /\ call["a"].op = "process_query"
    /\ call["a"].pc = "done"
    /\ ~ret["a"].raised
    /\ ret["a"].value.context # ""
    /\ call["b"].op = "process_query"
    /\ call["b"].pc = "searched"
    /\ call["b"].query # call["a"].query
    /\ call["b"].outcome.raises

\* the place of a restaurant in the registry
RegistryPosition(id) == CHOOSE i \in DOMAIN restaurant_index : restaurant_index[i].id = id

\* C17: detected restaurants of equal confidence are returned in registry
\* order, whichever pass (alias or category) detected each of them.
C17_TiesInRegistryOrder ==
    call.op = "detect_restaurants_in_query" =>
        \A i, j \in DOMAIN ret :
            (i < j /\ ret[i].confidence = ret[j].confidence) =>
                RegistryPosition(ret[i].id) < RegistryPosition(ret[j].id)

\* a returned passage as the backend gave it, without the scores added to it
AsRetrieved(chunk) == [k \in DOMAIN chunk \ {"rerank_score", "final_score"} |-> chunk[k]]

\* the place of a passage in the list the backend returned
RetrievalPosition(chunk) ==
    CHOOSE i \in DOMAIN rk.chunks :
        /\ rk.chunks[i] = AsRetrieved(chunk)
        /\ \A j \in 1..(i - 1) : rk.chunks[j] # AsRetrieved(chunk)

\* C18: the passages the hybrid search returns are in non-increasing
\* final_score order, and passages of equal final_score are in the order in
\* which the backend returned them.
C18_FinalOrderStable ==
    rk.op = "final" =>
        \A i, j \in DOMAIN rk.ret :
            i < j =>
               /\ rk.ret[i].final_score >= rk.ret[j].final_score
               /\ rk.ret[i].final_score = rk.ret[j].final_score
                     => RetrievalPosition(rk.ret[i]) <= RetrievalPosition(rk.ret[j])

\* the query has price or deal vocabulary, as the search reads it
HasPriceOrDealWords(query) ==
    AnyIn({"price", "prices", "cost", "how much", "deal"}, StrLower(query))

\* C19: for every top_k and every number of restaurant ids, the hybrid search
\* asks for top_k * 2 candidates when the query has no price or deal
\* vocabulary, and for min(top_k * 3, 20) when it has.
C19_OverFetch ==
    (call.op = "_hybrid_search" /\ call.asked) =>
        call.search_k = IF HasPriceOrDealWords(call.query)
                        THEN Min(call.top_k * 3, 20)
                        ELSE call.top_k * 2

\* C19, amended: the hybrid search computes min(top_k * 3, 20) candidates for
\* a query with price or deal vocabulary; for any other query min(top_k * 2, 15)
\* when more than one restaurant id is given and min(top_k * 2, 10) otherwise;
\* and it asks the backend for that many, or for all documents of the
\* collection when there are fewer.
C19_OverFetchCapped ==
    (call.op = "_hybrid_search" /\ call.asked) =>
        LET wanted == IF HasPriceOrDealWords(call.query) THEN Min(call.top_k * 3, 20)
                      ELSE IF Len(call.restaurant_ids) > 1 THEN Min(call.top_k * 2, 15)
                      ELSE Min(call.top_k * 2, 10)
        IN  /\ call.search_k = wanted
            /\ call.request.n_results = Min(wanted, Len(restaurant_collection))

\* C19, witness: a search for several restaurants, without price or deal
\* words, whose cap of 15 is below top_k * 2.
C19_Witness ==
    /\ call.op = "_hybrid_search"
    /\ call.asked
    /\ ~HasPriceOrDealWords(call.query)
    /\ Len(call.restaurant_ids) > 1
    /\ call.search_k = 15
    /\ call.top_k * 2 > 15
    /\ ~ret.raised

\* the text assembled from the passages selected for a result of a vector search
AssembledText(result) ==
    LET selected == SelectedChunks(PassagesOf(result))
    IN  FixPrices(Join([i \in DOMAIN selected |-> selected[i].content], "\n\n---\n\n"))

\* the price block of a restaurant's fallback record for a query: from its
\* deals section when the query has deal vocabulary, otherwise from its general
\* menu sections; "" when the record has no priced item there
PriceBlockFor(rid, query) ==
    IF AnyIn({"deal", "offer", "combo", "special"}, StrLower(query))
    THEN _extract_json_prices(rid, "deal")
    ELSE _extract_json_prices(rid, "price")

\* C20: for a restaurant with a selected passage, the section holds the
\* assembled text followed by the price block of its fallback record (deals for
\* a deal query, the general menu sections for any other query, with or
\* without price vocabulary) when the text has no currency amount and the
\* record has such priced items; and no price block when the text has one.
C20_PriceSupplement ==
    (call.op = "process_query" /\ ~ret.raised /\ use_vector_db) =>
        \A r \in DOMAIN ret.value.search_results.results :
            LET result == ret.value.search_results.results[r]
                text   == AssembledText(result)
                block  == PriceBlockFor(result.id, call.query)
            IN  (PassagesOf(result) # <<>> /\ HasSection(ret.value.context, result)) =>
                    IF HasRsDotDigits(text)
                    THEN ~StrIn(text \o "\n\n---\n\nPrice Information:", ret.value.context)
                    ELSE block # "" =>
                            StrIn(text \o "\n\n---\n\n" \o block, ret.value.context)

\* the items a price block lists: its lines after the heading
ItemsListed(block) == Cardinality({i \in 1..Len(block) : CharAt(block, i) = "\n"})

\* the largest number of items the code takes from one list (line 826)
SupplementCap == 5

\* C21: the price block made from a fallback record lists at most a fixed
\* number of items, however many deals, menu sections and items the record
\* holds.
C21_SupplementCapped ==
    call.op = "_extract_json_prices" => ItemsListed(ret) <= SupplementCap

\* the passages of a section's restaurant in the results of the call
SectionPassages(section) ==
    LET results == call.search_results.results
    IN  PassagesOf(results[CHOOSE r \in DOMAIN results : results[r].id = section.id])

C23_WhereFilter ==
    (call.op = "_hybrid_search" /\ call.asked) =>
        /\ Len(call.restaurant_ids) > 1 =>
              /\ call.request.where = <<>>
              /\ \A i \in DOMAIN ret.value :
                    ret.value[i].restaurant_id \in Range(call.restaurant_ids)
        /\ Len(call.restaurant_ids) = 1 =>
              call.request.where = [restaurant_id |-> call.restaurant_ids[1]]
        /\ Len(call.restaurant_ids) = 0 => call.request.where = <<>>

\* C23, witness: a search for two restaurants to which the backend gave a
\* passage of a third; the passage is not returned, another one is.
C23_Witness ==
    /\ call.op = "_hybrid_search"
    /\ call.asked
    /\ Len(call.restaurant_ids) = 2
    /\ \E h \in DOMAIN call.outcome.hits :
          restaurant_collection[call.outcome.hits[h].doc].metadata.restaurant_id
              \notin Range(call.restaurant_ids)
    /\ ~ret.raised
    /\ Len(ret.value) = 1
    /\ Len(call.outcome.hits) = 2

\* C24: in process_query, when exactly one detected restaurant is explicit and
\* the others are category-only, the focus is the explicit one, also below a
\* category-only restaurant of higher confidence; a single category-only
\* detection is the focus; several category-only detections and no explicit
\* one give no focus.
C24_FocusPrecedence ==
    (call.op = "process_query" /\ ~ret.raised) =>
        LET detected == ret.value.detected_restaurants
            explicit == ExplicitlyNamed(detected)
        IN  /\ Cardinality(explicit) = 1 =>
                  \A e \in explicit : call.focus_restaurant = detected[e].name
            /\ (explicit = {} /\ Len(detected) = 1) =>
                  call.focus_restaurant = detected[1].name
            /\ (explicit = {} /\ Len(detected) > 1) => call.focus_restaurant = ""

\* C24, witness: the only explicit restaurant is second in the detections,
\* below a category-only restaurant of higher confidence, and is the focus.
C24_Witness ==
    /\ call.op = "process_query"
    /\ ~ret.raised
    /\ ExplicitlyNamed(ret.value.detected_restaurants) = {2}
    /\ ret.value.detected_restaurants[1].detection_type = "food_category"
    /\ ret.value.detected_restaurants[1].confidence
          > ret.value.detected_restaurants[2].confidence
    /\ call.focus_restaurant = ret.value.detected_restaurants[2].name

\* C24, witness of the other cases: a single category-only detection that is
\* the focus.
C24_WitnessSingleCategory ==
    /\ call.op = "process_query"
    /\ ~ret.raised
    /\ Len(ret.value.detected_restaurants) = 1
    /\ ret.value.detected_restaurants[1].detection_type = "food_category"
    /\ call.focus_restaurant = ret.value.detected_restaurants[1].name

\* the keyword is one of the blank-separated words (or runs of words) of the query
WholeWordIn(keyword, query_lower) == StrIn(" " \o keyword \o " ", " " \o query_lower \o " ")

\* C25: a restaurant is detected by a food category only when a keyword of
\* that category occurs in the query as a whole word; a keyword that occurs
\* only inside a longer word ("rice" inside "prices") gives no detection and
\* no focus for that category.
C25_CategoryWholeWord ==
    (call.op = "process_query" /\ ~ret.raised) =>
        \A i \in DOMAIN ret.value.detected_restaurants :
            LET restaurant == ret.value.detected_restaurants[i]
            IN  restaurant.detection_type = "food_category" =>
                    \A category \in Range(restaurant.matching_categories) :
                        \E c \in DOMAIN food_categories :
                            /\ food_categories[c].category = category
                            /\ \E k \in DOMAIN food_categories[c].keywords :
                                  WholeWordIn(food_categories[c].keywords[k],
                                              StrLower(call.query))

\* C26: a search returns at most min(top_k, 5) passages in total across all
\* restaurants, so one process_query call retrieves, and puts in its
\* per-restaurant results, at most 5 passages however many restaurants were
\* searched.
C26_AtMostFivePassages ==
    /\ (call.op = "_hybrid_search" /\ ~ret.raised) =>
          Len(ret.value) <= Min(call.top_k, 5)
    /\ (call.op = "process_query" /\ ~ret.raised) =>
          /\ Len(call.retrieved_chunks.value) <= 5
          /\ Len(ret.value.search_results.retrieved_chunks) <= 5

\* C26, witness: a search with top_k above 5 whose backend gave more than 5
\* passages of several restaurants returned exactly 5.
C26_Witness ==
    /\ call.op = "_hybrid_search"
    /\ call.top_k > 5
    /\ Len(call.outcome.hits) > 5
    /\ Len(call.restaurant_ids) > 1
    /\ ~ret.raised
    /\ Len(ret.value) = 5
    /\ Cardinality({ret.value[i].restaurant_id : i \in DOMAIN ret.value}) > 1

\* the contribution of the passage type to the metadata sub-score
TypeContribution(metadata, query_terms) ==
    LET chunk_type == StrLower(Get(metadata, "type", ""))
        TermHas(word) == \E i \in DOMAIN query_terms : StrIn(word, query_terms[i])
    IN  (IF StrIn("menu", chunk_type) /\ TermHas("menu") THEN Weighted(One, 3) ELSE 0)
        + (IF StrIn("deal", chunk_type) /\ TermHas("deal") THEN Weighted(One, 3) ELSE 0)

\* C27: the 0.5 restaurant-name contribution of the metadata sub-score is
\* awarded only when the metadata has a non-empty restaurant_name that
\* contains, or is contained in, some query term; a passage whose metadata has
\* no restaurant name receives no name contribution.
C27_NameContribution ==
    rk.op = "rerank" =>
        \A i \in DOMAIN rk.chunks :
            LET metadata        == Get(rk.chunks[i], "metadata", <<>>)
                restaurant_name == StrLower(Get(metadata, "restaurant_name", ""))
                named == /\ restaurant_name # ""
                         /\ \E t \in DOMAIN rk.query_terms :
                               \/ StrIn(rk.query_terms[t], restaurant_name)
                               \/ StrIn(restaurant_name, rk.query_terms[t])
            IN  _calculate_metadata_score(metadata, rk.query_terms)
                    = Min(One, TypeContribution(metadata, rk.query_terms)
                               + (IF named THEN Weighted(One, 5) ELSE 0))

C30_GenerateResponseTerminates ==
    call.op = "generate_response" =>
        LET n          == Len(call.responses)
            candidates == <<call.model_before>> \o FallbackModels
            Succeeded(r) == ~r.throws /\ r.status = 200 /\ r.choices
            Stops(r)     == r.throws \/ Succeeded(r) \/ r.status \in {401, 402}
        IN  /\ ~ret.raised
            /\ ret.value \in STRING
            /\ n <= 4
            /\ \A i \in 1..(n - 1) : ~Stops(call.responses[i])
            /\ (n < 4 /\ llm_service.api_configured) => Stops(call.responses[n])
            /\ ~llm_service.api_configured => n = 0
            /\ IF n > 0 /\ Succeeded(call.responses[n])
               THEN /\ llm_service.model = candidates[n]
                    /\ ret.value = _clean_response(Strip(call.responses[n].content))
               ELSE /\ llm_service.model = call.model_before
                    /\ ret.value = _get_fallback_response(call.user_message, call.context)

\* C30, witness: three models failed, one of them with a 200 without
\* choices, and the fourth answered; it is now self.model.
C30_Witness ==
    /\ call.op = "generate_response"
    /\ Len(call.responses) = 4
    /\ \E i \in 1..3 : call.responses[i].status = 200
    /\ call.responses[4].choices
    /\ call.model_before = "custom-model"
    /\ llm_service.model = "mixtral-8x7b-32768"
    /\ ret = Returned("We have great deals")

\* C30, witness of the other endings: a call stopped by a 401 after one
\* failed model, and answered with the fallback response.
C30_WitnessUnauthorized ==
    /\ call.op = "generate_response"
    /\ Len(call.responses) = 2
    /\ call.responses[2].status = 401
    /\ ret = Returned(_get_fallback_response(call.user_message, call.context))

\* C29: whenever the /ws/voice handler has ended, by a client disconnect or by
\* any other exception, its websocket is no longer in active_connections:
\* active_connections holds exactly the sockets whose handler is still running.
C29_ActiveConnectionsAreRunning ==
    \A websocket \in Sockets :
        websocket \in Range(manager.active_connections)
            <=> call[websocket].pc = "receiving"

=============================================================================
